---- MODULE Spec2Model ----
(***************************************************************************)
(* A model of dax/spiders.py: the Spider base class, its ScanSpider,       *)
(* SessionSpider and AutoSpider specialisations and the module functions.  *)
(*                                                                         *)
(* The module holds several specifications over one set of variables:      *)
(*   SpecInit      Spider.__init__ : credential resolution                 *)
(*   Spec          upload / upload_dict / end / has_spider_handler         *)
(*   SpecDownload  download_inputs                                         *)
(*   SpecConn      download / download_xnat_file / download_xnat_resource  *)
(*   SpecSuffix    Spider.__init__ : suffix sanitisation                   *)
(*   SpecLabel     get_assessor_label                                      *)
(*   SpecSelect    select_str                                              *)
(*   SpecCmd       run_cmd_args                                            *)
(*   SpecVersion   is_good_version                                         *)
(*   SpecCopy      AutoSpider.copy_inputs                                  *)
(*   SpecData      download_inputs over inputs declared anew               *)
(*   SpecUri       copy_inputs over the forms of an xnat:/ URI             *)
(*   SpecGo        AutoSpider.go: pre_run, run, finish                     *)
(*   SpecGoLive    the same, with go() running to its end                  *)
(*   SpecStats     plot_stats                                              *)
(* A specification leaves the variables of the other parts at their        *)
(* initial values.                                                         *)
(*                                                                         *)
(* Python values: None is the string "None_"; strings are TLA+ strings;    *)
(* a raised exception is recorded by its class name.                       *)
(***************************************************************************)
EXTENDS Integers, Sequences, FiniteSets, TLC

VARIABLES
    \* ---- Spider.__init__ (credentials) ----
    environ,          \* os.environ restricted to XNAT_HOST / XNAT_USER / XNAT_PASS
    init_call,        \* arguments and environment seen by the last __init__
    host, user, pwd,  \* self.host, self.user, self.pwd
    prompted,         \* getpass.getpass was called by the last __init__
    init_state,       \* "new", "done", or the exception __init__ raised
    \* ---- upload handler ----
    datatype,         \* "scan": ScanSpider or AutoSpider(datatype='scan');
                      \* "session": SessionSpider or AutoSpider(datatype='session')
    spider_handler,   \* self.spider_handler: NoHandler or the handler object's id
    handlers,         \* the SpiderProcessHandler objects constructed so far
    handler_done,     \* done() was called on the handler
    jobdir_clean,     \* clean(jobdir) was called on the handler
    calls,            \* collaborator calls made by the last operation, in order
    uploads,          \* upload() invocations of the last operation, in order
    last_op,          \* the last operation and its arguments
    raised,           \* exception the last operation raised, or NoExc
    nops,             \* number of operations performed, counted up to MaxOps
    \* ---- XNAT connections and downloads ----
    inputs,           \* self.inputs
    data,             \* self.data: list of {'label', 'files'}
    dl_files,         \* files under jobdir/inputs
    dl_dirs,          \* directories under jobdir/inputs
    conns_open,       \* XNAT connections opened and not yet disconnected
    selected,         \* addresses given to select() by the last operation
    dl_op,            \* the last download operation, its arguments and outcome
    dl_runs,          \* number of download operations performed
    \* ---- Spider.__init__ (suffix) ----
    suffix_arg,       \* the suffix argument of the last construction
    suffix,           \* self.suffix
    suffix_state,     \* "new", "set", "again" (constructed from a previous
                      \* self.suffix), or the exception __init__ raised
    \* ---- Spider.get_assessor_label ----
    al_label, al_scan,  \* the arguments of the call
    al_result,          \* the label it returned
    al_done,            \* the call was made
    \* ---- Spider.select_str ----
    ss_dict,          \* the OrderedDict given to select_str
    ss_result,        \* the '/key/value' parts of the string it returned
    ss_done,          \* the call was made
    \* ---- Spider.run_cmd_args ----
    cmd_args,         \* self.cmd_args
    cmd_call,         \* the arguments of the last run_cmd_args call
    cmd,              \* the command line given to run_system_cmd, in pieces
    cmd_raised,       \* exception the call raised, or NoExc
    cmd_done,         \* the call was made
    \* ---- is_good_version ----
    version,          \* the version string given, as its characters
    version_result,   \* what is_good_version returned
    version_done,     \* the call was made
    \* ---- AutoSpider: staging of the inputs ----
    params,           \* self.params: the declared parameters (name, kind)
    argv,             \* the parameter values given on the command line
    src_inputs,       \* self.src_inputs: parameter name -> value
    run_inputs_bound, \* self.run_inputs is the dictionary self.src_inputs
                      \* (line 894); before that it is an empty dictionary
    input_dir,        \* the directory jobdir/INPUT exists
    staged_dirs,      \* the directories INPUT/<name>_<i> created
    staged_files,     \* what was copied or downloaded under INPUT
    copy_result,      \* what the last copy_inputs returned
    copy_raised,      \* exception the last copy_inputs raised, or NoExc
    copy_env,         \* what the environment answered to the last copy_inputs
    copy_done,        \* copy_inputs was called
    \* ---- AutoSpider.go ----
    skip_finish,      \* self.skip_finish
    outputs,          \* self.outputs: the declared (path, kind, resource)
    job_entries,      \* the entries under jobdir other than INPUT
    script,           \* the script run() wrote and the values it rendered
    go_pc,            \* where go() stands
    go_trace,         \* the methods go() has invoked, in order
    go_raised,        \* exception that left go(), or NoExc
    \* ---- plot_stats ----
    stats_dict,       \* the keys of the mapping, in the order of items()
    tables_number,    \* the argument tables_number
    tables,           \* the cellText of the tables drawn, in order
    stats_done        \* the call was made

None == "None_"

\* Python truthiness of an optional string: None and "" are false
Truthy(v) == v # None /\ v # ""

credVars == <<environ, init_call, host, user, pwd, prompted, init_state>>
upVars == <<datatype, spider_handler, handlers, handler_done,
            jobdir_clean, calls, uploads, last_op, raised, nops>>
dlVars == <<inputs, data, dl_files, dl_dirs, conns_open, selected, dl_op, dl_runs>>
sufVars == <<suffix_arg, suffix, suffix_state>>
alVars == <<al_label, al_scan, al_result, al_done>>
ssVars == <<ss_dict, ss_result, ss_done>>
cmdVars == <<cmd_args, cmd_call, cmd, cmd_raised, cmd_done>>
verVars == <<version, version_result, version_done>>
copyVars == <<params, argv, src_inputs, run_inputs_bound, input_dir,
              staged_dirs, staged_files, copy_result, copy_raised, copy_env,
              copy_done>>
goVars == <<skip_finish, outputs, job_entries, script, go_pc, go_trace,
            go_raised>>
statsVars == <<stats_dict, tables_number, tables, stats_done>>
fnVars == <<sufVars, alVars, ssVars, cmdVars, verVars, copyVars, goVars,
            statsVars>>
vars == <<credVars, upVars, dlVars, fnVars>>

-----------------------------------------------------------------------------
(***************************************************************************)
(* Spider.__init__ : host, user and password resolution                    *)
(***************************************************************************)

EnvNames == {"XNAT_HOST", "XNAT_USER", "XNAT_PASS"}

\* values an argument of __init__ can take
HostArgs == {None, "", "argHost"}
UserArgs == {None, "", "argUser"}
PassArgs == {None, "", "argPass"}
\* values an environment variable can hold (None: not in os.environ)
EnvValues == [XNAT_HOST : {None, "", "envHost"},
              XNAT_USER : {None, "", "envUser"},
              XNAT_PASS : {None, "", "envPass"}]
\* what the user can type at the getpass prompt
Typed == {"", "typedPass"}

\* the failure result of the resolution functions
ValueError == "ValueError"

\* get_default_value(variable, env_name, value), mutated: environment first
get_default_value_EnvFirst(env, env_name, value) ==
    IF env[env_name] # None /\ env[env_name] # ""
    THEN env[env_name]
    ELSE IF Truthy(value) THEN value ELSE ValueError

\* get_default_value(variable, env_name, value)
get_default_value(env, env_name, value) ==
    IF Truthy(value)
    THEN value
    ELSE IF env[env_name] # None /\ env[env_name] # ""
         THEN env[env_name]
         ELSE ValueError

\* get_pwd(host, user, pwd), mutated: environment before the prompt
get_pwd_EnvFirst(env, h, u, p, typed) ==
    IF Truthy(p)
    THEN [value |-> p, prompt |-> FALSE]
    ELSE IF env["XNAT_PASS"] # None /\ env["XNAT_PASS"] # ""
         THEN [value |-> env["XNAT_PASS"], prompt |-> FALSE]
         ELSE IF Truthy(u)
              THEN [value |-> typed, prompt |-> TRUE]
              ELSE [value |-> ValueError, prompt |-> FALSE]

\* get_pwd(host, user, pwd); typed is what getpass.getpass returns
get_pwd(env, h, u, p, typed) ==
    IF Truthy(p)
    THEN [value |-> p, prompt |-> FALSE]
    ELSE IF Truthy(u)
         THEN [value |-> typed, prompt |-> TRUE]
         ELSE IF env["XNAT_PASS"] # None /\ env["XNAT_PASS"] # ""
              THEN [value |-> env["XNAT_PASS"], prompt |-> FALSE]
              ELSE [value |-> ValueError, prompt |-> FALSE]

\* state of the credential part before any construction
InitCred ==
    /\ environ \in EnvValues
    /\ init_call = None
    /\ host = None /\ user = None /\ pwd = None
    /\ prompted = FALSE
    /\ init_state = "new"

\* the credential part when it is not under study: a constructed spider
IdleCred ==
    /\ environ = [XNAT_HOST |-> "envHost", XNAT_USER |-> "envUser",
                  XNAT_PASS |-> "envPass"]
    /\ init_call = None
    /\ host = "envHost" /\ user = "envUser" /\ pwd = "envPass"
    /\ prompted = FALSE
    /\ init_state = "done"

\* Spider.__init__, lines 88-90 and 108-110: a new spider is constructed in
\* the current process environment
SpiderInit(xnat_host, xnat_user, xnat_pass, typed) ==
    LET h == get_default_value(environ, "XNAT_HOST", xnat_host)
        u == get_default_value(environ, "XNAT_USER", xnat_user)
        p == get_pwd(environ, xnat_host, xnat_user, xnat_pass, typed)
        call == [xnat_host |-> xnat_host, xnat_user |-> xnat_user,
                 xnat_pass |-> xnat_pass, environ |-> environ, typed |-> typed]
    IN  /\ init_call' = call
        /\ IF h = ValueError
           THEN /\ host' = None /\ user' = None /\ pwd' = None
                /\ prompted' = FALSE
                /\ init_state' = ValueError
                /\ UNCHANGED environ
           ELSE IF u = ValueError
           THEN /\ host' = h /\ user' = None /\ pwd' = None
                /\ prompted' = FALSE
                /\ init_state' = ValueError
                /\ UNCHANGED environ
           ELSE IF p.value = ValueError
           THEN /\ host' = h /\ user' = u /\ pwd' = None
                /\ prompted' = p.prompt
                /\ init_state' = ValueError
                /\ UNCHANGED environ
           ELSE /\ host' = h /\ user' = u /\ pwd' = p.value
                /\ prompted' = p.prompt
                /\ init_state' = "done"
                /\ environ' = [XNAT_HOST |-> h, XNAT_USER |-> u,
                               XNAT_PASS |-> p.value]
        /\ UNCHANGED <<upVars, dlVars, fnVars>>

NextInit ==
    \E xnat_host \in HostArgs, xnat_user \in UserArgs,
       xnat_pass \in PassArgs, typed \in Typed :
        SpiderInit(xnat_host, xnat_user, xnat_pass, typed)

-----------------------------------------------------------------------------
(***************************************************************************)
(* The upload handler: has_spider_handler, upload, upload_dict, end        *)
(***************************************************************************)

\* bounds of the upload model
MaxOps == 2        \* operations on one spider are counted up to this number
MaxPaths == 2      \* number of paths a files_dict holds in all

\* self.spider_handler = None
NoHandler == 0

\* the paths given to upload, and what os.path.isfile and os.path.isdir
\* say of them
Paths == {"report.pdf", "outdir", "nowhere"}
fs == [p \in Paths |-> CASE p = "report.pdf" -> "file"
                         [] p = "outdir" -> "dir"
                         [] OTHER -> "missing"]
Resources == {"PDF", "DATA"}
DataTypes == {"scan", "session"}
jobdir == "jobdir"

\* no exception / an exception of class t raised by function f
NoExc == [type |-> None, by |-> None]
Exc(t, f) == [type |-> t, by |-> f]

\* a call on a collaborator: the handler (h its id) or the time writer
Call(fn, h, path, resource) ==
    [fn |-> fn, handler |-> h, path |-> path, resource |-> resource]

\* values of a files_dict: a str, a list of str, or anything else
SeqsUpTo(S, n) == UNION {[1..k -> S] : k \in 0..n}
DictValues ==
    {[type |-> "str", paths |-> <<p>>] : p \in Paths}
    \cup {[type |-> "list", paths |-> ps] : ps \in SeqsUpTo(Paths, MaxPaths)}
    \cup {[type |-> "other", paths |-> <<>>]}
DictItems == [resource : Resources, value : DictValues]
\* files_dict.items(): the entries in iteration order, keys distinct
RECURSIVE NPaths(_)
NPaths(d) == IF d = <<>> THEN 0 ELSE Len(Head(d).value.paths) + NPaths(Tail(d))
FilesDicts ==
    {d \in SeqsUpTo(DictItems, Cardinality(Resources)) :
        /\ \A i, j \in DOMAIN d : i # j => d[i].resource # d[j].resource
        /\ NPaths(d) <= MaxPaths}

\* the part of the spider the upload operations read and write
UpState ==
    [spider_handler |-> spider_handler, handlers |-> handlers,
     handler_done |-> handler_done,
     jobdir_clean |-> jobdir_clean,
     calls |-> <<>>, uploads |-> <<>>, raised |-> NoExc]

\* {Scan,Session,Auto}Spider.define_spider_process_handler
define_spider_process_handler(s) ==
    LET id == Len(s.handlers) + 1
        obj == [with_scan |-> datatype = "scan"]
    IN  [s EXCEPT !.spider_handler = id,
                  !.handlers = Append(@, obj),
                  !.calls = Append(@, Call("SpiderProcessHandler", id, None, None))]

\* has_spider_handler, mutated: the handler is defined on every call
has_spider_handler_Always(s) == define_spider_process_handler(s)

\* Spider.has_spider_handler
has_spider_handler(s) ==
    IF s.spider_handler = NoHandler
    THEN define_spider_process_handler(s)
    ELSE s

\* a registration call on the handler
Register(s, fn, path, resource) ==
    [s EXCEPT !.calls = Append(@, Call(fn, s.spider_handler, path, resource))]

\* upload, mutated: no special case for the PDF resource
upload_NoPdf(s, fpath, resource) ==
    LET s1 == has_spider_handler(s)
        s2 == [s1 EXCEPT !.uploads = Append(@, <<fpath, resource>>)]
    IN  IF fs[fpath] = "file"
        THEN Register(s2, "add_file", fpath, resource)
        ELSE IF fs[fpath] = "dir"
             THEN Register(s2, "add_folder", fpath, resource)
             ELSE [s2 EXCEPT !.raised = Exc("ValueError", "upload")]

\* upload, mutated: the path is not checked for existence
upload_NoCheck(s, fpath, resource) ==
    LET s1 == has_spider_handler(s)
        s2 == [s1 EXCEPT !.uploads = Append(@, <<fpath, resource>>)]
    IN  IF fs[fpath] = "dir"
        THEN Register(s2, "add_folder", fpath, resource)
        ELSE IF resource = "PDF"
             THEN Register(s2, "add_pdf", fpath, None)
             ELSE Register(s2, "add_file", fpath, resource)

\* Spider.upload(fpath, resource)
upload(s, fpath, resource) ==
    LET s1 == has_spider_handler(s)
        s2 == [s1 EXCEPT !.uploads = Append(@, <<fpath, resource>>)]
    IN  IF fs[fpath] = "file"
        THEN IF resource = "PDF"
             THEN Register(s2, "add_pdf", fpath, None)
             ELSE Register(s2, "add_file", fpath, resource)
        ELSE IF fs[fpath] = "dir"
             THEN Register(s2, "add_folder", fpath, resource)
             ELSE [s2 EXCEPT !.raised = Exc("ValueError", "upload")]

\* the inner loop of upload_dict: upload every path of a list, in order,
\* until one raises
RECURSIVE upload_list(_, _, _)
upload_list(s, paths, resource) ==
    IF paths = <<>> \/ s.raised # NoExc
    THEN s
    ELSE upload_list(upload(s, Head(paths), resource), Tail(paths), resource)

\* the outer loop of upload_dict over files_dict.items()
RECURSIVE upload_items(_, _)
upload_items(s, items) ==
    IF items = <<>> \/ s.raised # NoExc
    THEN s
    ELSE LET it == Head(items)
             s1 == IF it.value.type = "str"
                   THEN upload(s, it.value.paths[1], it.resource)
                   ELSE IF it.value.type = "list"
                        THEN upload_list(s, it.value.paths, it.resource)
                        ELSE [s EXCEPT !.raised = Exc("ValueError", "upload_dict")]
         IN  upload_items(s1, Tail(items))

\* the loop of upload_dict, mutated: a value of another type is skipped
RECURSIVE upload_items_Skip(_, _)
upload_items_Skip(s, items) ==
    IF items = <<>> \/ s.raised # NoExc
    THEN s
    ELSE LET it == Head(items)
             s1 == IF it.value.type = "str"
                   THEN upload(s, it.value.paths[1], it.resource)
                   ELSE IF it.value.type = "list"
                        THEN upload_list(s, it.value.paths, it.resource)
                        ELSE s
         IN  upload_items_Skip(s1, Tail(items))

\* upload_dict, mutated: see upload_items_Skip
upload_dict_Skip(s, files_dict) ==
    upload_items_Skip(has_spider_handler(s), files_dict)

\* Spider.upload_dict(files_dict)
upload_dict(s, files_dict) ==
    upload_items(has_spider_handler(s), files_dict)

\* end, mutated: the job directory is cleaned before the queue is marked done
end_CleanFirst(s) ==
    LET s1 == has_spider_handler(s)
        h == s1.spider_handler
    IN  [s1 EXCEPT !.jobdir_clean = TRUE,
                   !.handler_done = TRUE,
                   !.calls = @ \o <<Call("clean", h, jobdir, None),
                                    Call("done", h, None, None),
                                    Call("print_end", NoHandler, None, None)>>]

\* Spider.end()
end(s) ==
    LET s1 == has_spider_handler(s)
        h == s1.spider_handler
    IN  [s1 EXCEPT !.handler_done = TRUE,
                   !.jobdir_clean = TRUE,
                   !.calls = @ \o <<Call("done", h, None, None),
                                    Call("clean", h, jobdir, None),
                                    Call("print_end", NoHandler, None, None)>>]

Op(name, fpath, resource, files_dict) ==
    [op |-> name, fpath |-> fpath, resource |-> resource,
     files_dict |-> files_dict]

\* state of the upload part after construction (Spider.__init__, line 82)
InitUpload ==
    /\ datatype \in DataTypes
    /\ spider_handler = NoHandler
    /\ handlers = <<>>
    /\ handler_done = FALSE
    /\ jobdir_clean = FALSE
    /\ calls = <<>>
    /\ uploads = <<>>
    /\ last_op = Op("__init__", None, None, <<>>)
    /\ raised = NoExc
    /\ nops = 0

\* the upload part when it is not under study
IdleUpload ==
    /\ datatype = "session"
    /\ spider_handler = NoHandler
    /\ handlers = <<>>
    /\ handler_done = FALSE
    /\ jobdir_clean = FALSE
    /\ calls = <<>>
    /\ uploads = <<>>
    /\ last_op = Op("__init__", None, None, <<>>)
    /\ raised = NoExc
    /\ nops = 0

\* the upload part after an operation that left it in state s
UpBecomes(s, op) ==
    /\ spider_handler' = s.spider_handler
    /\ handlers' = s.handlers
    /\ handler_done' = s.handler_done
    /\ jobdir_clean' = s.jobdir_clean
    /\ calls' = s.calls
    /\ uploads' = s.uploads
    /\ raised' = s.raised
    /\ last_op' = op
    /\ nops' = IF nops < MaxOps THEN nops + 1 ELSE nops
    /\ UNCHANGED datatype

\* the spider after an operation that left it in state s
Becomes(s, op) ==
    /\ UpBecomes(s, op)
    /\ UNCHANGED <<credVars, dlVars, fnVars>>

HasSpiderHandler ==
    Becomes(has_spider_handler(UpState), Op("has_spider_handler", None, None, <<>>))

Upload(fpath, resource) ==
    Becomes(upload(UpState, fpath, resource), Op("upload", fpath, resource, <<>>))

UploadDict(files_dict) ==
    Becomes(upload_dict(UpState, files_dict), Op("upload_dict", None, None, files_dict))

End ==
    Becomes(end(UpState), Op("end", None, None, <<>>))

NextUpload ==
    \/ HasSpiderHandler
    \/ \E fpath \in Paths, resource \in Resources : Upload(fpath, resource)
    \/ \E files_dict \in FilesDicts : UploadDict(files_dict)
    \/ End

-----------------------------------------------------------------------------
(***************************************************************************)
(* XNAT addressing and download_inputs                                     *)
(*                                                                         *)
(* A name (project, label, resource, directory) is a sequence of parts:    *)
(* '-x-'.join(parts) is their concatenation and a name contains '-x-'      *)
(* when it has more than one part.  The empty sequence is None.            *)
(***************************************************************************)

\* bounds of the download model
MaxInputs == 2     \* length of self.inputs
MaxRuns == 2       \* download operations performed on one spider

NoName == <<>>

xnat_project == <<"P">>
xnat_subject == <<"S">>
xnat_session == <<"E">>

\* an entry of an OrderedDict of XNAT keys
Pair(k, v) == [key |-> k, value |-> v]

\* mutated: the scan id is put after the label
get_assessor_label_ScanLast(label, scan) ==
    IF Len(label) <= 1
    THEN IF scan = NoName
         THEN xnat_project \o xnat_subject \o xnat_session \o label
         ELSE xnat_project \o xnat_subject \o xnat_session \o label \o scan
    ELSE label

\* Spider.get_assessor_label(label, scan)
get_assessor_label(label, scan) ==
    IF Len(label) <= 1
    THEN IF scan = NoName
         THEN xnat_project \o xnat_subject \o xnat_session \o label
         ELSE xnat_project \o xnat_subject \o xnat_session \o scan \o label
    ELSE label

\* Spider.get_xnat_dict(data_dict): isNone when it returns None.  The test
\* of line 310 compares the dictionary with a string and is never true, so
\* the resource is always keyed 'resource'.
get_xnat_dict(d) ==
    LET proj == <<Pair("project", xnat_project)>>
        sess == <<Pair("subject", xnat_subject), Pair("experiment", xnat_session)>>
        res == <<Pair("resource", d.resource)>>
        none == [isNone |-> TRUE, dict |-> <<>>]
        some(x) == [isNone |-> FALSE, dict |-> x \o res]
    IN  IF d.type = "" THEN none
        ELSE IF d.type = "subject"
             THEN some(proj \o <<Pair("subject", xnat_subject)>>)
        ELSE IF d.type = "session"
             THEN some(proj \o sess)
        ELSE IF d.type = "scan"
             THEN IF d.label = NoName THEN none
                  ELSE some(proj \o sess \o <<Pair("scan", d.label)>>)
        ELSE IF d.type = "assessor"
             THEN IF d.label = NoName THEN none
                  ELSE some(proj \o sess \o
                            <<Pair("assessor", get_assessor_label(d.label, d.scan))>>)
        ELSE some(proj)

\* mutated: every entry is rendered, empty values included
select_str_All(xnat_dict) == xnat_dict

\* Spider.select_str(xnat_dict): the '/key/value' parts of the address
select_str(xnat_dict) == SelectSeq(xnat_dict, LAMBDA p : p.value # NoName)

\* an entry of self.inputs: a data dictionary (Spider.get_data_dict)
DataDict(type, label, resource, dir, scan) ==
    [isdict |-> TRUE, type |-> type, label |-> label, resource |-> resource,
     dir |-> dir, scan |-> scan]
\* an entry of self.inputs that is not a dictionary
NotADict ==
    [isdict |-> FALSE, type |-> "", label |-> NoName, resource |-> NoName,
     dir |-> NoName, scan |-> NoName]

\* what the XNAT server holds under a resource name: files at the top of
\* the resource and directories (each holding one file "g")
Remote(resource) ==
    CASE resource = <<"FILES">> ->
             [exists |-> TRUE, files |-> {"f1", "f2"}, dirs |-> {}]
      [] resource = <<"FILES2">> ->
             [exists |-> TRUE, files |-> {"f2", "f3"}, dirs |-> {}]
      [] resource = <<"TREE">> ->
             [exists |-> TRUE, files |-> {"f1"}, dirs |-> {"sub"}]
      [] OTHER ->
             [exists |-> FALSE, files |-> {}, dirs |-> {}]

\* the data dictionaries a spider declares
InputDicts ==
    { NotADict,
      DataDict("", <<"L">>, <<"FILES">>, NoName, NoName),
      DataDict("subject", <<"L">>, <<"FILES">>, NoName, NoName),
      DataDict("session", NoName, <<"FILES">>, NoName, NoName),
      DataDict("session", NoName, <<"FILES">>, <<"D">>, NoName),
      DataDict("session", <<"L">>, <<"FILES2">>, NoName, NoName),
      DataDict("scan", NoName, <<"FILES">>, <<"D">>, NoName),
      DataDict("scan", <<"L">>, <<"FILES">>, NoName, NoName),
      DataDict("scan", <<"L">>, <<"FILES">>, <<"D">>, NoName),
      DataDict("scan", <<"L">>, <<"TREE">>, NoName, NoName),
      DataDict("scan", <<"L">>, <<"GONE">>, NoName, NoName),
      DataDict("assessor", <<"A">>, <<"FILES">>, NoName, NoName),
      DataDict("assessor", <<"A">>, <<"FILES2">>, NoName, <<"C">>),
      DataDict("assessor", <<"P", "S", "E", "A">>, <<"FILES">>, NoName, NoName) }

\* values of self.inputs: None, something that is not a list, or a list
InputsValues ==
    {[kind |-> "None", items |-> <<>>], [kind |-> "notlist", items |-> <<>>]}
    \cup {[kind |-> "list", items |-> its] : its \in SeqsUpTo(InputDicts, MaxInputs)}

\* a path under jobdir/inputs: the data folder and the path below it
Path(folder, rel) == [folder |-> folder, rel |-> rel]
Under(p, folder, rel) ==
    /\ p.folder = folder
    /\ Len(p.rel) >= Len(rel)
    /\ SubSeq(p.rel, 1, Len(rel)) = rel

Range(s) == {s[i] : i \in DOMAIN s}
NoDup(s) == \A i, j \in DOMAIN s : i # j => s[i] # s[j]

\* a list holding the elements of a set once each, in the order the
\* interpreter enumerates them (list(set(..)), os.walk, os.listdir)
RECURSIVE SetToSeq(_)
SetToSeq(S) ==
    IF S = {} THEN <<>>
    ELSE LET x == CHOOSE x \in S : TRUE IN <<x>> \o SetToSeq(S \ {x})

\* line 261, mutated: the lists are concatenated, not merged as a set
merge_files_Concat(list_files, old) == list_files \o old

\* line 261: list(set(list_files + item[0]['files']))
merge_files(list_files, old) == SetToSeq(Range(list_files \o old))

\* lines 259-266, mutated: the files of an existing label are replaced
record_files_Replace(d, label, list_files) ==
    LET item == {i \in DOMAIN d : d[i].label = label}
    IN  IF item # {}
        THEN LET i == CHOOSE i \in item : \A j \in item : i <= j
             IN  [d EXCEPT ![i].files = list_files]
        ELSE Append(d, [label |-> label, files |-> list_files])

\* lines 259-266: record the files of a label in self.data
record_files(d, label, list_files) ==
    LET item == {i \in DOMAIN d : d[i].label = label}
    IN  IF item # {}
        THEN LET i == CHOOSE i \in item : \A j \in item : i <= j
             IN  [d EXCEPT ![i].files = merge_files(list_files, @)]
        ELSE Append(d, [label |-> label, files |-> list_files])

\* the part of the spider download_inputs reads and writes
DlState ==
    [data |-> data, files |-> dl_files, dirs |-> dl_dirs,
     conns |-> conns_open, selected |-> <<>>, raised |-> NoExc,
     result |-> None]

\* lines 229-231, mutated: an entry that is not a dictionary is skipped
process_input_SkipNonDict(st, d, files_first) ==
    IF ~d.isdict
    THEN st
    ELSE IF d.dir = NoName /\ d.label = NoName
    THEN [st EXCEPT !.raised = Exc("AttributeError", "os.path.join")]
    ELSE
    LET data_folder == IF d.dir # NoName THEN d.dir ELSE d.label
        st1 == [st EXCEPT !.dirs = @ \cup {Path(data_folder, <<>>)}]
        xnat_dict == get_xnat_dict(d)
    IN  IF xnat_dict.isNone
        THEN [st1 EXCEPT !.raised = Exc("AttributeError", "select_str")]
        ELSE
        LET res_str == select_str(xnat_dict.dict)
            st2 == [st1 EXCEPT !.selected = Append(@, res_str)]
            content == Remote(d.resource)
            rlabel == d.resource[1]
            extracted_files ==
                {Path(data_folder, <<rlabel, f>>) : f \in content.files}
                \cup {Path(data_folder, <<rlabel, sd, "g">>) : sd \in content.dirs}
            extracted_dirs ==
                {Path(data_folder, <<rlabel>>)}
                \cup {Path(data_folder, <<rlabel, sd>>) : sd \in content.dirs}
            copied == {Path(data_folder, <<f>>) : f \in content.files}
        IN  IF ~content.exists
            THEN [st2 EXCEPT !.raised = Exc("XnatError", "get")]
            ELSE IF content.dirs # {}
            THEN \* copytree(src_path, data_folder): data_folder exists
                 [st2 EXCEPT !.raised = Exc("OSError", "copytree"),
                             !.files = @ \cup extracted_files
                                         \cup (IF files_first THEN copied ELSE {}),
                             !.dirs = @ \cup extracted_dirs]
            ELSE
            LET files2 == {p \in st2.files \cup copied :
                               ~Under(p, data_folder, <<rlabel>>)}
                dirs2 == {p \in st2.dirs : ~Under(p, data_folder, <<rlabel>>)}
                list_files == SetToSeq({p \in files2 : p.folder = data_folder})
            IN  [st2 EXCEPT !.files = files2,
                            !.dirs = dirs2,
                            !.data = record_files(@, d.label, list_files)]

\* lines 229-266: the body of the loop of download_inputs for one entry;
\* files_first tells whether os.listdir gives the files of the extracted
\* resource before its directories
process_input(st, d, files_first) ==
    IF ~d.isdict
    THEN [st EXCEPT !.raised = Exc("Exception", "download_inputs")]
    ELSE IF d.dir = NoName /\ d.label = NoName
    THEN [st EXCEPT !.raised = Exc("AttributeError", "os.path.join")]
    ELSE
    LET data_folder == IF d.dir # NoName THEN d.dir ELSE d.label
        st1 == [st EXCEPT !.dirs = @ \cup {Path(data_folder, <<>>)}]
        xnat_dict == get_xnat_dict(d)
    IN  IF xnat_dict.isNone
        THEN [st1 EXCEPT !.raised = Exc("AttributeError", "select_str")]
        ELSE
        LET res_str == select_str(xnat_dict.dict)
            st2 == [st1 EXCEPT !.selected = Append(@, res_str)]
            content == Remote(d.resource)
            rlabel == d.resource[1]
            extracted_files ==
                {Path(data_folder, <<rlabel, f>>) : f \in content.files}
                \cup {Path(data_folder, <<rlabel, sd, "g">>) : sd \in content.dirs}
            extracted_dirs ==
                {Path(data_folder, <<rlabel>>)}
                \cup {Path(data_folder, <<rlabel, sd>>) : sd \in content.dirs}
            copied == {Path(data_folder, <<f>>) : f \in content.files}
        IN  IF ~content.exists
            THEN [st2 EXCEPT !.raised = Exc("XnatError", "get")]
            ELSE IF content.dirs # {}
            THEN \* copytree(src_path, data_folder): data_folder exists
                 [st2 EXCEPT !.raised = Exc("OSError", "copytree"),
                             !.files = @ \cup extracted_files
                                         \cup (IF files_first THEN copied ELSE {}),
                             !.dirs = @ \cup extracted_dirs]
            ELSE
            LET files2 == {p \in st2.files \cup copied :
                               ~Under(p, data_folder, <<rlabel>>)}
                dirs2 == {p \in st2.dirs : ~Under(p, data_folder, <<rlabel>>)}
                list_files == SetToSeq({p \in files2 : p.folder = data_folder})
            IN  [st2 EXCEPT !.files = files2,
                            !.dirs = dirs2,
                            !.data = record_files(@, d.label, list_files)]

\* the loop of download_inputs: it ends at the first exception
RECURSIVE process_inputs(_, _, _)
process_inputs(st, items, files_first) ==
    IF items = <<>> \/ st.raised # NoExc
    THEN st
    ELSE process_inputs(process_input(st, Head(items), files_first),
                        Tail(items), files_first)

\* Spider.download_inputs(); iface_ok tells whether get_interface succeeds
download_inputs(st, inp, iface_ok, files_first) ==
    IF inp.kind = "None" \/ (inp.kind = "list" /\ inp.items = <<>>)
    THEN [st EXCEPT !.raised = Exc("Exception", "download_inputs")]
    ELSE IF inp.kind # "list"
    THEN [st EXCEPT !.raised = Exc("Exception", "download_inputs")]
    ELSE IF ~iface_ok
    THEN [st EXCEPT !.raised = Exc("XnatError", "get_interface")]
    ELSE
    LET st1 == process_inputs([st EXCEPT !.conns = @ + 1], inp.items, files_first)
    IN  IF st1.raised = NoExc
        THEN [st1 EXCEPT !.conns = @ - 1]
        ELSE st1

\* the record of a download operation: its name, what the environment
\* answered (iface_ok: get_interface succeeded; step_ok: the transfer
\* succeeded; files_first: the order of os.listdir; found: the kinds of
\* remote object that exist under the label), its arguments and its outcome
DlOp(name, st, env, label, src) ==
    [name |-> name, raised |-> st.raised, result |-> st.result,
     iface_ok |-> env.iface_ok, step_ok |-> env.step_ok,
     files_first |-> env.files_first, found |-> env.found,
     label |-> label, src |-> src]
Env(iface_ok, step_ok, files_first, found) ==
    [iface_ok |-> iface_ok, step_ok |-> step_ok, files_first |-> files_first,
     found |-> found]
NoSrc == [res |-> NoName, marker |-> "none", file |-> ""]
InitOp ==
    [name |-> "__init__", raised |-> NoExc, result |-> None,
     iface_ok |-> TRUE, step_ok |-> TRUE, files_first |-> TRUE, found |-> {},
     label |-> NoName, src |-> NoSrc]

\* state of the download part after construction (lines 114-116)
InitDownload ==
    /\ inputs \in InputsValues
    /\ data = <<>>
    /\ dl_files = {}
    /\ dl_dirs = {}
    /\ conns_open = 0
    /\ selected = <<>>
    /\ dl_op = InitOp
    /\ dl_runs = 0

\* the download part when it is not under study
IdleDownload ==
    /\ inputs = [kind |-> "None", items |-> <<>>]
    /\ data = <<>>
    /\ dl_files = {}
    /\ dl_dirs = {}
    /\ conns_open = 0
    /\ selected = <<>>
    /\ dl_op = InitOp
    /\ dl_runs = 0

DownloadInputs(iface_ok, files_first) ==
    LET st == download_inputs(DlState, inputs, iface_ok, files_first)
    IN  /\ dl_runs < MaxRuns
        /\ data' = st.data
        /\ dl_files' = st.files
        /\ dl_dirs' = st.dirs
        /\ conns_open' = st.conns
        /\ selected' = st.selected
        /\ dl_op' = DlOp("download_inputs", st,
                          Env(iface_ok, TRUE, files_first, {}), NoName, NoSrc)
        /\ dl_runs' = dl_runs + 1
        /\ UNCHANGED inputs
        /\ UNCHANGED <<credVars, upVars, fnVars>>

\* the spider declares its inputs: self.inputs = [...]
DeclaredDicts ==
    { DataDict("scan", <<"L">>, <<"FILES">>, <<"D">>, NoName),
      DataDict("session", <<"L">>, <<"FILES2">>, NoName, NoName),
      DataDict("assessor", <<"A">>, <<"FILES">>, NoName, NoName) }
DeclaredInputs ==
    {[kind |-> "list", items |-> its] : its \in SeqsUpTo(DeclaredDicts, MaxInputs)}

SetInputs(v) ==
    /\ inputs' = v
    /\ UNCHANGED <<data, dl_files, dl_dirs, conns_open, selected, dl_op, dl_runs>>
    /\ UNCHANGED <<credVars, upVars, fnVars>>

\* calls of download_inputs between which the inputs are declared anew
NextData ==
    \/ \E v \in DeclaredInputs : SetInputs(v)
    \/ \E iface_ok \in BOOLEAN, files_first \in BOOLEAN :
           DownloadInputs(iface_ok, files_first)

NextDownload ==
    \E iface_ok \in BOOLEAN, files_first \in BOOLEAN :
        DownloadInputs(iface_ok, files_first)

-----------------------------------------------------------------------------
(***************************************************************************)
(* Spider.download and the AutoSpider download helpers                     *)
(***************************************************************************)

\* select_obj, mutated: the assessor address is tried before the scan's
select_obj_AssessorFirst(st, found, obj_label, resource) ==
    LET tmp_dict == <<Pair("project", xnat_project),
                      Pair("subject", xnat_subject),
                      Pair("experiment", xnat_session)>>
        tmp_dict_scan == tmp_dict \o <<Pair("scan", obj_label),
                                       Pair("resource", resource)>>
        tmp_dict_assessor == tmp_dict \o <<Pair("assessor", obj_label),
                                           Pair("out/resource", resource)>>
        st1 == [st EXCEPT !.selected = Append(@, select_str(tmp_dict_assessor))]
        st2 == [st1 EXCEPT !.selected = Append(@, select_str(tmp_dict_scan))]
    IN  IF "assessor" \in found
        THEN [st1 EXCEPT !.result = "assessor"]
        ELSE IF "scan" \in found
             THEN [st2 EXCEPT !.result = "scan"]
             ELSE [st2 EXCEPT !.raised = Exc("ValueError", "select_obj")]

\* Spider.select_obj(intf, obj_label, resource): found holds the kinds of
\* object ("scan", "assessor") the server resolves under obj_label
select_obj(st, found, obj_label, resource) ==
    LET tmp_dict == <<Pair("project", xnat_project),
                      Pair("subject", xnat_subject),
                      Pair("experiment", xnat_session)>>
        tmp_dict_scan == tmp_dict \o <<Pair("scan", obj_label),
                                       Pair("resource", resource)>>
        tmp_dict_assessor == tmp_dict \o <<Pair("assessor", obj_label),
                                           Pair("out/resource", resource)>>
        st1 == [st EXCEPT !.selected = Append(@, select_str(tmp_dict_scan))]
        st2 == [st1 EXCEPT !.selected = Append(@, select_str(tmp_dict_assessor))]
    IN  IF "scan" \in found
        THEN [st1 EXCEPT !.result = "scan"]
        ELSE IF "assessor" \in found
             THEN [st2 EXCEPT !.result = "assessor"]
             ELSE [st2 EXCEPT !.raised = Exc("ValueError", "select_obj")]

\* Spider.download(obj_label, resource, folder); step_ok tells whether
\* XnatUtils.download_files_from_obj succeeds
download(st, env, obj_label, resource) ==
    IF ~env.iface_ok
    THEN [st EXCEPT !.raised = Exc("XnatError", "get_interface")]
    ELSE
    LET st1 == select_obj([st EXCEPT !.conns = @ + 1], env.found,
                          obj_label, resource)
    IN  IF st1.raised # NoExc
        THEN [st1 EXCEPT !.result = None]
        ELSE IF ~env.step_ok
        THEN [st1 EXCEPT !.raised = Exc("XnatError", "download_files_from_obj"),
                         !.result = None]
        ELSE [st1 EXCEPT !.conns = @ - 1, !.result = "list_files"]

\* the parsed sources the helpers are given: the address of a resource, the
\* marker that follows it ('/files/', '/resources/' or neither) and the
\* file name after a '/files/' marker
Sources ==
    { [res |-> <<"R">>, marker |-> "files", file |-> "x.nii"],
      [res |-> <<"R">>, marker |-> "resources", file |-> ""],
      [res |-> <<"R">>, marker |-> "none", file |-> ""] }

\* the finally clause, mutated: the connection is not disconnected
helper_finally_NoDisconnect(st, env, fn) ==
    IF env.iface_ok
    THEN st
    ELSE [st EXCEPT !.raised = Exc("UnboundLocalError", fn), !.result = None]

\* the finally clause of the helpers: xnat.disconnect(), where xnat is
\* unbound when get_interface raised
helper_finally(st, env, fn) ==
    IF env.iface_ok
    THEN [st EXCEPT !.conns = @ - 1]
    ELSE [st EXCEPT !.raised = Exc("UnboundLocalError", fn), !.result = None]

\* AutoSpider.download_xnat_file(src, dst)
download_xnat_file(st, env, src) ==
    LET st1 == IF ~env.iface_ok
               THEN st
               ELSE LET s == [st EXCEPT !.conns = @ + 1]
                    IN  IF src.marker # "files"
                        THEN s
                        ELSE LET s2 == [s EXCEPT !.selected = Append(@, src.res)]
                             IN  IF env.step_ok
                                 THEN [s2 EXCEPT !.result = "dst"]
                                 ELSE s2
    IN  helper_finally(st1, env, "download_xnat_file")

\* AutoSpider.download_xnat_resource(src, dst)
download_xnat_resource(st, env, src) ==
    LET st1 == IF ~env.iface_ok
               THEN st
               ELSE LET s == [st EXCEPT !.conns = @ + 1,
                                        !.selected = Append(@, src.res)]
                    IN  IF env.step_ok
                        THEN [s EXCEPT !.result = "dst"]
                        ELSE s
    IN  helper_finally(st1, env, "download_xnat_resource")

\* the spider after a connection operation that left it in state st
ConnBecomes(st, op) ==
    /\ dl_runs < MaxRuns
    /\ conns_open' = st.conns
    /\ selected' = st.selected
    /\ dl_op' = op
    /\ dl_runs' = dl_runs + 1
    /\ UNCHANGED <<inputs, data, dl_files, dl_dirs>>
    /\ UNCHANGED <<credVars, upVars, fnVars>>

Download(env, obj_label, resource) ==
    ConnBecomes(download(DlState, env, obj_label, resource),
                DlOp("download", download(DlState, env, obj_label, resource),
                     env, obj_label, NoSrc))

DownloadXnatFile(env, src) ==
    ConnBecomes(download_xnat_file(DlState, env, src),
                DlOp("download_xnat_file", download_xnat_file(DlState, env, src),
                     env, NoName, src))

DownloadXnatResource(env, src) ==
    ConnBecomes(download_xnat_resource(DlState, env, src),
                DlOp("download_xnat_resource",
                     download_xnat_resource(DlState, env, src),
                     env, NoName, src))

\* a call of self.select_obj(intf, obj_label, resource) on an interface
\* the caller holds
SelectObj(env, obj_label, resource) ==
    ConnBecomes(select_obj(DlState, env.found, obj_label, resource),
                DlOp("select_obj",
                     select_obj(DlState, env.found, obj_label, resource),
                     env, obj_label, NoSrc))

ObjLabels == {<<"L">>, <<"P", "S", "E", "A">>}

NextConn ==
    \/ \E iface_ok \in BOOLEAN, step_ok \in BOOLEAN,
          found \in SUBSET {"scan", "assessor"}, obj_label \in ObjLabels :
           Download(Env(iface_ok, step_ok, TRUE, found), obj_label, <<"FILES">>)
    \/ \E iface_ok \in BOOLEAN, step_ok \in BOOLEAN, src \in Sources :
           DownloadXnatFile(Env(iface_ok, step_ok, TRUE, {}), src)
    \/ \E iface_ok \in BOOLEAN, step_ok \in BOOLEAN, src \in Sources :
           DownloadXnatResource(Env(iface_ok, step_ok, TRUE, {}), src)
    \/ \E found \in SUBSET {"scan", "assessor"}, obj_label \in ObjLabels :
           SelectObj(Env(TRUE, TRUE, TRUE, found), obj_label, <<"FILES">>)

-----------------------------------------------------------------------------
(***************************************************************************)
(* Spider.__init__ : the suffix (lines 92-104)                             *)
(*                                                                         *)
(* A string is the sequence of its characters.  The suffix argument is a   *)
(* record: none is TRUE for suffix=None, chars holds the string otherwise. *)
(***************************************************************************)

\* longest suffix argument considered
MaxSuffixLen == 3

\* characters matched by the class [a-zA-Z0-9]
AsciiAlnum == {"a", "Z", "7"}
\* the characters of a suffix argument: ASCII alphanumerics, the underscore,
\* punctuation, and a letter outside ASCII (e-acute)
SuffixChars == AsciiAlnum \cup {"_", "-", "U+00E9"}

SuffixStrings(n) == UNION {[1..k -> SuffixChars] : k \in 0..n}
SuffixArgs ==
    {[none |-> TRUE, chars |-> <<>>]}
        \cup {[none |-> FALSE, chars |-> s] : s \in SuffixStrings(MaxSuffixLen)}

IndexError == "IndexError"

\* re.sub('[^a-zA-Z0-9]', '_', s), line 96
sub_special(s) ==
    [i \in 1..Len(s) |-> IF s[i] \in AsciiAlnum THEN s[i] ELSE "_"]

\* re.sub('_+', '_', s), line 98
RECURSIVE sub_underscores(_)
sub_underscores(s) ==
    IF Len(s) <= 1 THEN s
    ELSE IF s[1] = "_" /\ s[2] = "_" THEN sub_underscores(Tail(s))
    ELSE <<s[1]>> \o sub_underscores(Tail(s))

\* mutated: the leading underscore is added without looking at the first
\* character
sanitize_suffix_AlwaysPrefix(arg) ==
    IF arg.none \/ arg.chars = <<>>
    THEN [exc |-> None, suffix |-> <<>>]
    ELSE LET s2 == sub_underscores(sub_special(arg.chars))
             s3 == IF s2[Len(s2)] = "_" THEN SubSeq(s2, 1, Len(s2) - 1) ELSE s2
         IN  IF s3 = <<>>
             THEN [exc |-> IndexError, suffix |-> <<>>]
             ELSE [exc |-> None, suffix |-> <<"_">> \o s3]

\* lines 92-104: the value given to self.suffix, or the exception raised
\* when indexing the string left empty by line 101
sanitize_suffix(arg) ==
    IF arg.none \/ arg.chars = <<>>
    THEN [exc |-> None, suffix |-> <<>>]
    ELSE LET s2 == sub_underscores(sub_special(arg.chars))
             s3 == IF s2[Len(s2)] = "_" THEN SubSeq(s2, 1, Len(s2) - 1) ELSE s2
         IN  IF s3 = <<>>
             THEN [exc |-> IndexError, suffix |-> <<>>]
             ELSE IF s3[1] # "_"
             THEN [exc |-> None, suffix |-> <<"_">> \o s3]
             ELSE [exc |-> None, suffix |-> s3]

\* a spider is about to be constructed with some suffix argument
InitSuffix ==
    /\ suffix_arg \in SuffixArgs
    /\ suffix = <<>>
    /\ suffix_state = "new"

\* the suffix part when it is not under study: suffix="" was given
IdleSuffix ==
    /\ suffix_arg = [none |-> FALSE, chars |-> <<>>]
    /\ suffix = <<>>
    /\ suffix_state = "set"

\* Spider.__init__ with the suffix argument suffix_arg
SpiderSuffix ==
    LET r == sanitize_suffix(suffix_arg)
    IN  /\ suffix_state = "new"
        /\ suffix' = r.suffix
        /\ suffix_state' = IF r.exc = None THEN "set" ELSE r.exc
        /\ UNCHANGED suffix_arg
        /\ UNCHANGED <<credVars, upVars, dlVars, alVars, ssVars, cmdVars, verVars, copyVars, goVars, statsVars>>

\* a second spider is constructed with the first one's self.suffix
SpiderSuffixAgain ==
    LET arg == [none |-> FALSE, chars |-> suffix]
        r == sanitize_suffix(arg)
    IN  /\ suffix_state = "set"
        /\ suffix_arg' = arg
        /\ suffix' = r.suffix
        /\ suffix_state' = IF r.exc = None THEN "again" ELSE r.exc
        /\ UNCHANGED <<credVars, upVars, dlVars, alVars, ssVars, cmdVars, verVars, copyVars, goVars, statsVars>>

NextSuffix == SpiderSuffix \/ SpiderSuffixAgain

-----------------------------------------------------------------------------
(***************************************************************************)
(* Spider.get_assessor_label and Spider.select_str as functions            *)
(*                                                                         *)
(* A label is the sequence of the parts that '-x-' separates in it, so a   *)
(* label holds the separator when it has two parts or more, and            *)
(* '-x-'.join is the concatenation of the parts.                           *)
(***************************************************************************)

\* most parts in a label given to get_assessor_label
MaxParts == 3
\* most entries in a dictionary given to select_str
MaxEntries == 3

LabelParts == {"A", "B", "fMRI"}
Labels == UNION {[1..k -> LabelParts] : k \in 1..MaxParts}
\* the scan argument: None, or a scan id
Scans == {NoName, <<"C">>, <<"301">>}

InitLabel ==
    /\ al_label \in Labels
    /\ al_scan \in Scans
    /\ al_result = NoName
    /\ al_done = FALSE

IdleLabel ==
    /\ al_label = <<"A">>
    /\ al_scan = NoName
    /\ al_result = NoName
    /\ al_done = FALSE

\* a call of self.get_assessor_label(label, scan)
GetAssessorLabel ==
    /\ ~al_done
    /\ al_result' = get_assessor_label(al_label, al_scan)
    /\ al_done' = TRUE
    /\ UNCHANGED <<al_label, al_scan>>
    /\ UNCHANGED <<credVars, upVars, dlVars, sufVars, ssVars, cmdVars, verVars, copyVars, goVars, statsVars>>

NextLabel == GetAssessorLabel

\* the keys and values of the dictionaries given to select_str
XnatKeys == {"project", "subject", "experiment", "scan"}
XnatValues == {NoName, <<"P">>, <<"E">>}
\* OrderedDicts: sequences of entries with distinct keys
XnatDicts ==
    {d \in UNION {[1..k -> [key : XnatKeys, value : XnatValues]] :
                      k \in 0..MaxEntries} :
        \A i, j \in DOMAIN d : i # j => d[i].key # d[j].key}

InitSelect ==
    /\ ss_dict \in XnatDicts
    /\ ss_result = <<>>
    /\ ss_done = FALSE

IdleSelect ==
    /\ ss_dict = <<>>
    /\ ss_result = <<>>
    /\ ss_done = FALSE

\* a call of Spider.select_str(xnat_dict)
SelectStr ==
    /\ ~ss_done
    /\ ss_result' = select_str(ss_dict)
    /\ ss_done' = TRUE
    /\ UNCHANGED ss_dict
    /\ UNCHANGED <<credVars, upVars, dlVars, sufVars, alVars, cmdVars, verVars, copyVars, goVars, statsVars>>

NextSelect == SelectStr

-----------------------------------------------------------------------------
(***************************************************************************)
(* Spider.run_cmd_args (lines 606-648)                                     *)
(*                                                                         *)
(* The command line is the sequence of the pieces the code concatenates:   *)
(* the executable, then for each argument its option, a space, its value   *)
(* and a space.                                                            *)
(***************************************************************************)

\* most arguments declared in self.cmd_args['args']
MaxArgs == 3

\* a 'position': an int, or a string of digits; n is the value int() gives
Position(type, n) == [type |-> type, n |-> n]
int(position) == position.n
Positions == {Position("int", 0), Position("int", 2),
              Position("str", 2), Position("str", 10)}
Opts == {"-i", "-o"}
Arg(position, opt, value) == [position |-> position, opt |-> opt, value |-> value]
\* the declared arguments; the value tells the position apart
Values == [n \in {0, 2, 10} |-> CASE n = 0 -> "v0" [] n = 2 -> "v2" [] OTHER -> "v10"]
Args == {Arg(p, o, Values[p.n]) : p \in Positions, o \in Opts}

\* self.cmd_args: the empty list of line 118, or a dictionary with or
\* without the keys 'exe' and 'args'
CmdArgs(kind, args) == [kind |-> kind, exe |-> "exe", args |-> args]
CmdArgsValues ==
    {CmdArgs(k, <<>>) : k \in {"unset", "noexe", "noargs"}}
        \cup {CmdArgs("ok", a) : a \in SeqsUpTo(Args, MaxArgs)}

\* the list with a put after the elements whose position is not greater
sorted_insert(l, a) ==
    LET n == Cardinality({i \in DOMAIN l : int(l[i].position) <= int(a.position)})
    IN  SubSeq(l, 1, n) \o <<a>> \o SubSeq(l, n + 1, Len(l))

\* sorted(args, key=lambda k: int(k['position'])): a stable sort
RECURSIVE sorted_args(_)
sorted_args(args) ==
    IF args = <<>> THEN <<>>
    ELSE sorted_insert(sorted_args(SubSeq(args, 1, Len(args) - 1)),
                       args[Len(args)])

\* lines 644-646: cmd += "%s %s " % (arg['opt'], arg['value'])
RECURSIVE render_args(_)
render_args(args) ==
    IF args = <<>> THEN <<>>
    ELSE <<args[1].opt, " ", args[1].value, " ">> \o render_args(Tail(args))

NoCmd == <<>>

\* mutated: the arguments are rendered as declared
run_cmd_args_Declared(ca, matlab, matlab_template) ==
    IF ca.kind = "unset" \/ ca.kind = "noexe" \/ ca.kind = "noargs"
    THEN [raised |-> Exc("Exception", "run_cmd_args"), cmd |-> NoCmd]
    ELSE IF matlab
    THEN IF ~Truthy(matlab_template)
         THEN [raised |-> Exc("Exception", "run_cmd_args"), cmd |-> NoCmd]
         ELSE IF ca.args # <<>>
         THEN [raised |-> Exc("KeyError", "mat_args"), cmd |-> NoCmd]
         ELSE [raised |-> Exc("AttributeError", "jobsdir"), cmd |-> NoCmd]
    ELSE [raised |-> NoExc, cmd |-> <<ca.exe>> \o render_args(ca.args)]

\* Spider.run_cmd_args(matlab, matlab_template): the exception raised and
\* the command given to run_system_cmd.  With matlab set, line 633 reads
\* mat_args[arg['opt']] of the empty dictionary and line 637 reads
\* self.jobsdir, which no spider defines.
run_cmd_args(ca, matlab, matlab_template) ==
    IF ca.kind = "unset" \/ ca.kind = "noexe" \/ ca.kind = "noargs"
    THEN [raised |-> Exc("Exception", "run_cmd_args"), cmd |-> NoCmd]
    ELSE IF matlab
    THEN IF ~Truthy(matlab_template)
         THEN [raised |-> Exc("Exception", "run_cmd_args"), cmd |-> NoCmd]
         ELSE IF ca.args # <<>>
         THEN [raised |-> Exc("KeyError", "mat_args"), cmd |-> NoCmd]
         ELSE [raised |-> Exc("AttributeError", "jobsdir"), cmd |-> NoCmd]
    ELSE [raised |-> NoExc, cmd |-> <<ca.exe>> \o render_args(sorted_args(ca.args))]

CmdCall(matlab, matlab_template) ==
    [matlab |-> matlab, matlab_template |-> matlab_template]

InitCmd ==
    /\ cmd_args \in CmdArgsValues
    /\ cmd_call = CmdCall(FALSE, None)
    /\ cmd = NoCmd
    /\ cmd_raised = NoExc
    /\ cmd_done = FALSE

IdleCmd ==
    /\ cmd_args = CmdArgs("unset", <<>>)
    /\ cmd_call = CmdCall(FALSE, None)
    /\ cmd = NoCmd
    /\ cmd_raised = NoExc
    /\ cmd_done = FALSE

\* a call of self.run_cmd_args(matlab, matlab_template)
RunCmdArgs(matlab, matlab_template) ==
    LET r == run_cmd_args(cmd_args, matlab, matlab_template)
    IN  /\ ~cmd_done
        /\ cmd_call' = CmdCall(matlab, matlab_template)
        /\ cmd' = r.cmd
        /\ cmd_raised' = r.raised
        /\ cmd_done' = TRUE
        /\ UNCHANGED cmd_args
        /\ UNCHANGED <<credVars, upVars, dlVars, sufVars, alVars, ssVars, verVars, copyVars, goVars, statsVars>>

NextCmd ==
    \E matlab \in BOOLEAN, matlab_template \in {None, "template"} :
        RunCmdArgs(matlab, matlab_template)

-----------------------------------------------------------------------------
(***************************************************************************)
(* is_good_version (lines 1304-1322); a string is the sequence of its      *)
(* characters                                                              *)
(***************************************************************************)

\* longest version string considered
MaxVersionLen == 6

Digits == {"1"}
\* the characters of a version string: a digit, the dot and a letter
VersionChars == Digits \cup {".", "a"}
Versions == UNION {[1..k -> VersionChars] : k \in 0..MaxVersionLen}

\* s.split('.'): the list of the parts the dots separate
RECURSIVE split_dot(_)
split_dot(s) ==
    IF \A i \in DOMAIN s : s[i] # "." THEN <<s>>
    ELSE LET d == CHOOSE i \in DOMAIN s :
                      s[i] = "." /\ \A j \in 1..(i - 1) : s[j] # "."
         IN  <<SubSeq(s, 1, d - 1)>> \o split_dot(SubSeq(s, d + 1, Len(s)))

\* str.isdigit(): at least one character, and digits only
isdigit(s) == s # <<>> /\ \A i \in DOMAIN s : s[i] \in Digits

\* mutated: an empty part passes the digit test
is_good_version_EmptyParts(v) ==
    LET vers == split_dot(v)
    IN  IF Len(vers) # 3 THEN FALSE
        ELSE \A k \in 1..3 : \A i \in DOMAIN vers[k] : vers[k][i] \in Digits

\* is_good_version(version)
is_good_version(v) ==
    LET vers == split_dot(v)
    IN  IF Len(vers) # 3 THEN FALSE
        ELSE IF ~isdigit(vers[1]) \/ ~isdigit(vers[2]) \/ ~isdigit(vers[3])
        THEN FALSE
        ELSE TRUE

InitVersion ==
    /\ version \in Versions
    /\ version_result = FALSE
    /\ version_done = FALSE

IdleVersion ==
    /\ version = <<>>
    /\ version_result = FALSE
    /\ version_done = FALSE

\* a call of is_good_version(version)
IsGoodVersion ==
    /\ ~version_done
    /\ version_result' = is_good_version(version)
    /\ version_done' = TRUE
    /\ UNCHANGED version
    /\ UNCHANGED <<credVars, upVars, dlVars, sufVars, alVars, ssVars, cmdVars, copyVars, goVars, statsVars>>

NextVersion == IsGoodVersion

-----------------------------------------------------------------------------
(***************************************************************************)
(* AutoSpider.copy_inputs and the copy helpers (lines 893-914, 1006-1054)  *)
(*                                                                         *)
(* The value of a FILE or DIR parameter is the list of the pieces its      *)
(* commas separate.  A piece is a source (a local path or an xnat:/ URI)   *)
(* or, once staged, the local path INPUT/<param>_<index>/<base>.           *)
(***************************************************************************)

\* most parameters a spider declares
MaxParams == 2
\* most sources in the value of one parameter
MaxSources == 2

\* a piece: what it is (scheme, what), its last name (base), its place when
\* staged (param, index) and its text, a sequence of parts in which
\* 'xnat:/', '{session}', '/files/' and '/resources/' are parts of their own
Text(scheme, what, base, param, index, uri) ==
    [scheme |-> scheme, what |-> what, base |-> base, param |-> param,
     index |-> index, uri |-> uri]
Item(scheme, what, base, param, index) ==
    Text(scheme, what, base, param, index, <<base>>)
\* a local path that is a file, a directory, or does not exist
LocalFile == Item("local", "file", "a.nii", "", 0)
LocalDir == Item("local", "dir", "d", "", 0)
LocalMissing == Item("local", "missing", "nowhere", "", 0)
\* URIs xnat:/.../files/x.nii, xnat:/.../resources/R and xnat:/... with
\* neither marker
XnatFile ==
    Text("xnat", "files", "x.nii", "", 0,
         <<"xnat:/", "{session}", "/resources/", "R", "/files/", "x.nii">>)
XnatResource ==
    Text("xnat", "resources", "", "", 0,
         <<"xnat:/", "{session}", "/resources/", "R">>)
XnatOther ==
    Text("xnat", "none", "", "", 0, <<"xnat:/", "{session}", "/scans/1">>)
\* a URI that spells the session out, and one with two '/files/' markers
XnatPlain ==
    Text("xnat", "files", "y.nii", "", 0,
         <<"xnat:/", "/projects/Q/subjects/T/experiments/F", "/resources/",
           "R", "/files/", "y.nii">>)
XnatTwoFiles ==
    Text("xnat", "twofiles", "z.nii", "", 0,
         <<"xnat:/", "{session}", "/resources/", "R", "/files/", "sub",
           "/files/", "z.nii">>)
\* the sources given to a FILE parameter and to a DIR parameter
FileSources == {LocalFile, LocalMissing, XnatFile}
DirSources == {LocalDir, LocalMissing, XnatResource}

\* the value of a parameter that is not FILE or DIR
Value == Item("value", "", "0.5", "", 0)
\* the local path of a staged source; base is "" for the directory itself
Dst(param, index, base) == Item("staged", "", base, param, index)
NoDst == Item("None", "", "", "", 0)

Param(name, kind) == [name |-> name, kind |-> kind]
ParamDefs == {Param("in_file", "FILE"), Param("in_dir", "DIR"),
              Param("thresh", "VALUE")}
\* self.params: parameters of distinct names
ParamLists ==
    {ps \in SeqsUpTo(ParamDefs, MaxParams) :
        \A i, j \in DOMAIN ps : i # j => ps[i].name # ps[j].name}
ParamNames(ps) == {ps[i].name : i \in DOMAIN ps}
\* the values the command line can give to the parameters ps
SourceLists(kind) ==
    SeqsUpTo(IF kind = "DIR" THEN DirSources ELSE FileSources, MaxSources)
        \ {<<>>}
RECURSIVE ArgValues(_)
ArgValues(ps) ==
    IF ps = <<>> THEN {<<>>}
    ELSE {a @@ (ps[1].name :> v) :
              a \in ArgValues(Tail(ps)),
              v \in IF ps[1].kind = "VALUE" THEN {<<Value>>}
                    ELSE SourceLists(ps[1].kind)}

\* lines 840-844: the names of the FILE and DIR parameters, in order
copy_list(ps) ==
    LET sel == SelectSeq(ps, LAMBDA p : p.kind = "FILE" \/ p.kind = "DIR")
    IN  [i \in DOMAIN sel |-> sel[i].name]

\* AutoSpider.is_xnat_uri(uri): uri.startswith('xnat:/')
is_xnat_uri(uri) == uri # <<>> /\ Head(uri) = "xnat:/"

\* '/projects/%s/subjects/%s/experiments/%s' of the spider's session
SessionPath ==
    <<"/projects/">> \o xnat_project \o <<"/subjects/">> \o xnat_subject
        \o <<"/experiments/">> \o xnat_session

\* src.replace('{session}', ...): every occurrence is replaced
RECURSIVE replace_session(_)
replace_session(src) ==
    IF src = <<>> THEN <<>>
    ELSE (IF Head(src) = "{session}" THEN SessionPath ELSE <<Head(src)>>)
             \o replace_session(Tail(src))

\* AutoSpider.parse_xnat_uri, mutated: the placeholder is left in the path
parse_xnat_uri_NoReplace(src) ==
    Tail(src)

\* AutoSpider.parse_xnat_uri(src): the text after 'xnat:/' with the
\* placeholder replaced
parse_xnat_uri(src) ==
    replace_session(Tail(src))

\* marker in src
Contains(src, marker) == \E i \in DOMAIN src : src[i] = marker

\* src.split(marker): the pieces between the occurrences of the marker
RECURSIVE split(_, _)
split(src, marker) ==
    IF ~Contains(src, marker) THEN <<src>>
    ELSE LET k == CHOOSE i \in DOMAIN src :
                      /\ src[i] = marker
                      /\ \A j \in 1..(i - 1) : src[j] # marker
         IN  <<SubSeq(src, 1, k - 1)>>
                 \o split(SubSeq(src, k + 1, Len(src)), marker)

\* the name a piece of text spells; the texts after a '/files/' marker are
\* of one part or empty
FileName(piece) == IF piece = <<>> THEN "" ELSE Head(piece)

\* the source as download_xnat_file and download_xnat_resource see it:
\* src.split('/files/') gives the address and the file when it has two pieces
XSrc(src) ==
    LET parts == split(src, "/files/")
    IN  IF Len(parts) = 2
        THEN [res |-> parts[1], marker |-> "files", file |-> FileName(parts[2])]
        ELSE [res |-> src,
              marker |-> IF Contains(src, "/resources/") THEN "resources"
                         ELSE "none",
              file |-> ""]

\* the part of the spider copy_inputs reads and writes
CopyState ==
    [src_inputs |-> src_inputs, bound |-> run_inputs_bound,
     input_dir |-> input_dir, dirs |-> staged_dirs, files |-> staged_files,
     conns |-> conns_open, selected |-> <<>>, raised |-> NoExc,
     result |-> None, dst |-> NoDst, failed |-> FALSE]

\* AutoSpider.copy_xnat_input(src, input_name)
copy_xnat_input(st, env, src, param, index) ==
    LET st1 == [st EXCEPT !.dirs = @ \cup {Dst(param, index, "")},
                          !.result = None]
    IN  IF Contains(src, "/files/")
        THEN IF Len(split(src, "/files/")) # 2
             THEN [st1 EXCEPT !.raised = Exc("ValueError", "copy_xnat_input"),
                              !.dst = NoDst]
             ELSE LET _file == FileName(split(src, "/files/")[2])
                      r == download_xnat_file(st1, env, XSrc(src))
                  IN  IF r.result # None
                      THEN [r EXCEPT !.dst = Dst(param, index, _file),
                                     !.files = @ \cup {Dst(param, index, _file)}]
                      ELSE [r EXCEPT !.dst = NoDst]
        ELSE IF Contains(src, "/resources/")
        THEN LET r == download_xnat_resource(st1, env, XSrc(src))
             IN  IF r.result # None
                 THEN [r EXCEPT !.dst = Dst(param, index, ""),
                                !.files = @ \cup {Dst(param, index,
                                                       src[Len(src)])}]
                 ELSE [r EXCEPT !.dst = NoDst]
        ELSE [st1 EXCEPT !.dst = NoDst]

\* AutoSpider.copy_local_input(src, input_name)
copy_local_input(st, src, param, index) ==
    LET st1 == [st EXCEPT !.dirs = @ \cup {Dst(param, index, "")}]
    IN  IF src.what = "dir" \/ src.what = "file"
        THEN [st1 EXCEPT !.dst = Dst(param, index, src.base),
                         !.files = @ \cup {Dst(param, index, src.base)}]
        ELSE [st1 EXCEPT !.dst = NoDst]

\* AutoSpider.copy_input(src, input_name); os.makedirs raises when the
\* directory INPUT/<input_name> exists
copy_input(st, env, src, param, index) ==
    IF Dst(param, index, "") \in st.dirs
    THEN [st EXCEPT !.raised = Exc("OSError", "makedirs"), !.dst = NoDst]
    ELSE IF is_xnat_uri(src.uri)
    THEN copy_xnat_input(st, env, parse_xnat_uri(src.uri), param, index)
    ELSE copy_local_input(st, src, param, index)

\* lines 898-912, mutated: the local paths are listed last first
RECURSIVE copy_sources_Reversed(_, _, _, _, _, _)
copy_sources_Reversed(st, env, param, src_list, i, dst_list) ==
    IF i > Len(src_list)
    THEN [st EXCEPT !.src_inputs[param] = dst_list]
    ELSE LET r == copy_input(st, env, src_list[i], param, i - 1)
         IN  IF r.raised # NoExc THEN r
             ELSE IF r.dst = NoDst THEN [r EXCEPT !.failed = TRUE]
             ELSE copy_sources_Reversed(r, env, param, src_list, i + 1,
                                        <<r.dst>> \o dst_list)

\* lines 898-912, mutated: a source that cannot be staged is left out
RECURSIVE copy_sources_Skip(_, _, _, _, _, _)
copy_sources_Skip(st, env, param, src_list, i, dst_list) ==
    IF i > Len(src_list)
    THEN [st EXCEPT !.src_inputs[param] = dst_list]
    ELSE LET r == copy_input(st, env, src_list[i], param, i - 1)
         IN  IF r.raised # NoExc THEN r
             ELSE IF r.dst = NoDst
             THEN copy_sources_Skip(r, env, param, src_list, i + 1, dst_list)
             ELSE copy_sources_Skip(r, env, param, src_list, i + 1,
                                    Append(dst_list, r.dst))

\* lines 900-912: the sources of one parameter from the i-th on; the
\* source of list index i is staged under the name <param>_<i-1>
RECURSIVE copy_sources(_, _, _, _, _, _)
copy_sources(st, env, param, src_list, i, dst_list) ==
    IF i > Len(src_list)
    THEN [st EXCEPT !.src_inputs[param] = dst_list]
    ELSE LET r == copy_input(st, env, src_list[i], param, i - 1)
         IN  IF r.raised # NoExc THEN r
             ELSE IF r.dst = NoDst THEN [r EXCEPT !.failed = TRUE]
             ELSE copy_sources(r, env, param, src_list, i + 1,
                               Append(dst_list, r.dst))

\* line 898: the loop over self.copy_list
RECURSIVE copy_params(_, _, _)
copy_params(st, env, names) ==
    IF names = <<>> \/ st.raised # NoExc \/ st.failed
    THEN st
    ELSE copy_params(copy_sources(st, env, Head(names),
                                  st.src_inputs[Head(names)], 1, <<>>),
                     env, Tail(names))

\* AutoSpider.copy_inputs(): os.mkdir raises when INPUT exists
copy_inputs(st, env, names) ==
    LET st1 == [st EXCEPT !.bound = TRUE]
    IN  IF st1.input_dir
        THEN [st1 EXCEPT !.raised = Exc("OSError", "mkdir")]
        ELSE copy_params([st1 EXCEPT !.input_dir = TRUE], env, names)

\* AutoSpider.__init__, lines 840-851
InitCopy ==
    /\ params \in ParamLists
    /\ argv \in ArgValues(params)
    /\ src_inputs = argv
    /\ run_inputs_bound = FALSE
    /\ input_dir = FALSE
    /\ staged_dirs = {}
    /\ staged_files = {}
    /\ copy_result = None
    /\ copy_raised = NoExc
    /\ copy_env = Env(TRUE, TRUE, TRUE, {})
    /\ copy_done = FALSE

\* the staging part when it is not under study: no parameter
IdleCopy ==
    /\ params = <<>>
    /\ argv = <<>>
    /\ src_inputs = <<>>
    /\ run_inputs_bound = FALSE
    /\ input_dir = FALSE
    /\ staged_dirs = {}
    /\ staged_files = {}
    /\ copy_result = None
    /\ copy_raised = NoExc
    /\ copy_env = Env(TRUE, TRUE, TRUE, {})
    /\ copy_done = FALSE

\* the spider after self.copy_inputs(); iface_ok: get_interface succeeds;
\* step_ok: the transfers from the server succeed
CopyBecomes(iface_ok, step_ok) ==
    LET st == copy_inputs(CopyState, Env(iface_ok, step_ok, TRUE, {}),
                          copy_list(params))
    IN  /\ src_inputs' = st.src_inputs
        /\ run_inputs_bound' = st.bound
        /\ input_dir' = st.input_dir
        /\ staged_dirs' = st.dirs
        /\ staged_files' = st.files
        /\ copy_result' = IF st.raised # NoExc \/ st.failed
                          THEN None ELSE "run_inputs"
        /\ copy_raised' = st.raised
        /\ copy_env' = Env(iface_ok, step_ok, TRUE, {})
        /\ copy_done' = TRUE
        /\ conns_open' = st.conns
        /\ selected' = st.selected
        /\ UNCHANGED <<params, argv>>
        /\ UNCHANGED <<inputs, data, dl_files, dl_dirs, dl_op, dl_runs>>

\* a call of self.copy_inputs()
CopyInputs(iface_ok, step_ok) ==
    /\ CopyBecomes(iface_ok, step_ok)
    /\ UNCHANGED <<credVars, upVars, sufVars, alVars, ssVars, cmdVars,
                   verVars, goVars, statsVars>>

\* a spider of one parameter, given every form of source
UriSources ==
    {XnatFile, XnatResource, XnatOther, XnatPlain, XnatTwoFiles, LocalFile}
InitUriCopy ==
    /\ params \in {<<Param("in_file", "FILE")>>, <<Param("in_dir", "DIR")>>}
    /\ argv \in {params[1].name :> v :
                    v \in SeqsUpTo(UriSources, MaxSources) \ {<<>>}}
    /\ src_inputs = argv
    /\ run_inputs_bound = FALSE
    /\ input_dir = FALSE
    /\ staged_dirs = {}
    /\ staged_files = {}
    /\ copy_result = None
    /\ copy_raised = NoExc
    /\ copy_env = Env(TRUE, TRUE, TRUE, {})
    /\ copy_done = FALSE

NextCopy ==
    \E iface_ok \in BOOLEAN, step_ok \in BOOLEAN : CopyInputs(iface_ok, step_ok)

-----------------------------------------------------------------------------
(***************************************************************************)
(* AutoSpider.go, run and finish (lines 916-969)                           *)
(*                                                                         *)
(* go() is a process: each of the methods it invokes is one step.          *)
(***************************************************************************)

\* most outputs a spider declares
MaxOutputs == 2

\* an element of self.outputs: (path, kind, resource)
Output(path, kind, resource) ==
    [path |-> path, kind |-> kind, resource |-> resource]
OutputDefs ==
    {Output("report.pdf", "FILE", "PDF"), Output("out.nii", "FILE", "DATA"),
     Output("outdir", "DIR", "DATA"), Output("log", "TEXT", "DATA")}
\* what the script may leave under jobdir
Products == {"report.pdf", "outdir"}

\* os.path.join(dir, name)
join(dir, name) == dir \o "/" \o name

\* no script written yet / the script rendered with the dictionary values
NoScript == [written |-> FALSE, values |-> <<>>]
Script(values) == [written |-> TRUE, values |-> values]

\* lines 916-920, mutated: go() returns when the staging failed
after_pre_run_Checked(r) ==
    IF r.raised # NoExc THEN "raised"
    ELSE IF r.failed THEN "returned"
    ELSE "pre_run"

\* lines 916-920: what copy_inputs returned is dropped by pre_run, and go()
\* goes on unless an exception left pre_run
after_pre_run(r) ==
    IF r.raised # NoExc THEN "raised"
    ELSE "pre_run"

\* line 922, mutated: finish is invoked whatever skip_finish is
after_run_Always(skip) ==
    "finish"

\* line 922: if not self.skip_finish
after_run(skip) ==
    IF ~skip THEN "finish" ELSE "return"

\* lines 949-959, mutated: a FILE of resource PDF is added as a file
register_output_NoPdf(s, o) ==
    IF o.kind = "FILE"
    THEN Register(s, "add_file", join(jobdir, o.path), o.resource)
    ELSE IF o.kind = "DIR"
    THEN Register(s, "add_folder", join(jobdir, o.path), o.resource)
    ELSE s

\* lines 949-959: the registration of one declared output
register_output(s, o) ==
    IF o.kind = "FILE"
    THEN IF o.resource = "PDF"
         THEN Register(s, "add_pdf", join(jobdir, o.path), None)
         ELSE Register(s, "add_file", join(jobdir, o.path), o.resource)
    ELSE IF o.kind = "DIR"
    THEN Register(s, "add_folder", join(jobdir, o.path), o.resource)
    ELSE s

\* lines 948-959: the loop over self.outputs
RECURSIVE register_outputs(_, _)
register_outputs(s, outs) ==
    IF outs = <<>> THEN s
    ELSE register_outputs(register_output(s, Head(outs)), Tail(outs))

\* lines 961-964: the loop over os.listdir(self.jobdir)
RECURSIVE register_entries(_, _)
register_entries(s, names) ==
    IF names = <<>> THEN s
    ELSE register_entries(
             Register(s, "add_folder", join(jobdir, Head(names)), Head(names)),
             Tail(names))

\* AutoSpider.finish(); listing is os.listdir(self.jobdir)
finish(s, outs, listing) ==
    LET s1 == has_spider_handler(s)
        s2 == IF outs # <<>>
              THEN register_outputs(s1, outs)
              ELSE register_entries(s1, listing)
    IN  end(s2)

\* the entries under jobdir, and the orders os.listdir can give them in
Listing == job_entries \cup (IF input_dir THEN {"INPUT"} ELSE {})
Orders(S) == {o \in [1..Cardinality(S) -> S] : \A e \in S : \E i \in DOMAIN o : o[i] = e}

\* AutoSpider.__init__: a spider of one FILE parameter
GoArgs ==
    {<<LocalFile>>, <<LocalMissing>>, <<XnatFile>>, <<LocalFile, LocalMissing>>}
InitGoCopy ==
    /\ params = <<Param("in_file", "FILE")>>
    /\ argv \in {"in_file" :> v : v \in GoArgs}
    /\ src_inputs = argv
    /\ run_inputs_bound = FALSE
    /\ input_dir = FALSE
    /\ staged_dirs = {}
    /\ staged_files = {}
    /\ copy_result = None
    /\ copy_raised = NoExc
    /\ copy_env = Env(TRUE, TRUE, TRUE, {})
    /\ copy_done = FALSE

InitGo ==
    /\ skip_finish \in BOOLEAN
    /\ outputs \in SeqsUpTo(OutputDefs, MaxOutputs)
    /\ job_entries = {}
    /\ script = NoScript
    /\ go_pc = "new"
    /\ go_trace = <<>>
    /\ go_raised = NoExc

\* spiders that declare no output, a PDF and a directory, or an output of
\* a kind finish does not know
InitGoFew ==
    /\ skip_finish \in BOOLEAN
    /\ outputs \in {<<>>,
                     <<Output("report.pdf", "FILE", "PDF"),
                       Output("outdir", "DIR", "DATA")>>,
                     <<Output("log", "TEXT", "DATA")>>}
    /\ job_entries = {}
    /\ script = NoScript
    /\ go_pc = "new"
    /\ go_trace = <<>>
    /\ go_raised = NoExc

IdleGo ==
    /\ skip_finish = FALSE
    /\ outputs = <<>>
    /\ job_entries = {}
    /\ script = NoScript
    /\ go_pc = "new"
    /\ go_trace = <<>>
    /\ go_raised = NoExc

\* go() is called and invokes self.pre_run(), which calls copy_inputs
GoPreRun(iface_ok, step_ok) ==
    LET r == copy_inputs(CopyState, Env(iface_ok, step_ok, TRUE, {}),
                         copy_list(params))
    IN  /\ go_pc = "new"
        /\ CopyBecomes(iface_ok, step_ok)
        /\ go_trace' = Append(go_trace, "pre_run")
        /\ go_pc' = after_pre_run(r)
        /\ go_raised' = r.raised
        /\ UNCHANGED <<skip_finish, outputs, job_entries, script>>
        /\ UNCHANGED <<credVars, upVars, sufVars, alVars, ssVars, cmdVars,
                       verVars, statsVars>>

\* go() invokes self.run(): os.mkdir(self.script_dir), the template
\* rendered with self.run_inputs and the script run.  subst_ok: the template
\* names only keys of the dictionary; made: what the script leaves in jobdir
GoRun(subst_ok, made) ==
    /\ go_pc = "pre_run"
    /\ go_trace' = Append(go_trace, "run")
    /\ IF "SCRIPT" \in job_entries
       THEN /\ go_raised' = Exc("OSError", "mkdir")
            /\ go_pc' = "raised"
            /\ UNCHANGED <<job_entries, script>>
       ELSE IF ~subst_ok
       THEN /\ go_raised' = Exc("KeyError", "substitute")
            /\ go_pc' = "raised"
            /\ job_entries' = job_entries \cup {"SCRIPT"}
            /\ UNCHANGED script
       ELSE /\ go_raised' = NoExc
            /\ go_pc' = "run"
            /\ job_entries' = job_entries \cup {"SCRIPT"} \cup made
            /\ script' = Script(IF run_inputs_bound THEN src_inputs ELSE <<>>)
    /\ UNCHANGED <<skip_finish, outputs>>
    /\ UNCHANGED <<credVars, upVars, dlVars, sufVars, alVars, ssVars, cmdVars,
                   verVars, copyVars, statsVars>>

\* go() invokes self.finish(); listing: what os.listdir(self.jobdir) gives
GoFinish(listing) ==
    /\ go_pc = "run"
    /\ after_run(skip_finish) = "finish"
    /\ UpBecomes(finish(UpState, outputs, listing), Op("finish", None, None, <<>>))
    /\ go_trace' = Append(go_trace, "finish")
    /\ go_pc' = "returned"
    /\ UNCHANGED <<skip_finish, outputs, job_entries, script, go_raised>>
    /\ UNCHANGED <<credVars, dlVars, sufVars, alVars, ssVars, cmdVars,
                   verVars, copyVars, statsVars>>

\* go() returns without invoking finish
GoReturn ==
    /\ go_pc = "run"
    /\ after_run(skip_finish) = "return"
    /\ go_pc' = "returned"
    /\ UNCHANGED <<skip_finish, outputs, job_entries, script, go_trace,
                   go_raised>>
    /\ UNCHANGED <<credVars, upVars, dlVars, sufVars, alVars, ssVars, cmdVars,
                   verVars, copyVars, statsVars>>

NextGo ==
    \/ \E iface_ok \in BOOLEAN, step_ok \in BOOLEAN : GoPreRun(iface_ok, step_ok)
    \/ \E subst_ok \in BOOLEAN, made \in SUBSET Products : GoRun(subst_ok, made)
    \/ \E listing \in Orders(Listing) : GoFinish(listing)
    \/ GoReturn

-----------------------------------------------------------------------------
(***************************************************************************)
(* plot_stats (lines 1556-1622): the rows given to each table              *)
(***************************************************************************)

\* most entries of a mapping and most tables asked for
MaxStats == 9
MaxTables == 6

\* the mappings: the keys 1..n in the order items() gives them
StatsDicts == {[i \in 1..n |-> i] : n \in 0..MaxStats}

Min(a, b) == IF a < b THEN a ELSE b

\* l[a:b] for indices that are not negative
slice(l, a, b) == SubSeq(l, Min(a, Len(l)) + 1, Min(b, Len(l)))

\* lines 1584-1601: one row per entry, and for each i in
\* range(tables_number) the rows cell_text[nb_stats/3*i:nb_stats/3*(i+1)],
\* where / is the integer division
plot_stats(sd, tn) ==
    LET cell_text == sd
        nb_stats == Len(sd)
    IN  [k \in 1..tn |->
            slice(cell_text, (nb_stats \div 3) * (k - 1), (nb_stats \div 3) * k)]

InitStats ==
    /\ stats_dict \in StatsDicts
    /\ tables_number \in 1..MaxTables
    /\ tables = <<>>
    /\ stats_done = FALSE

IdleStats ==
    /\ stats_dict = <<>>
    /\ tables_number = 3
    /\ tables = <<>>
    /\ stats_done = FALSE

\* a call of plot_stats(pdf_path, page_index, stats_dict, title, tables_number)
PlotStats ==
    /\ ~stats_done
    /\ tables' = plot_stats(stats_dict, tables_number)
    /\ stats_done' = TRUE
    /\ UNCHANGED <<stats_dict, tables_number>>
    /\ UNCHANGED <<credVars, upVars, dlVars, sufVars, alVars, ssVars, cmdVars,
                   verVars, copyVars, goVars>>

NextStats == PlotStats

IdleFn == IdleSuffix /\ IdleLabel /\ IdleSelect /\ IdleCmd /\ IdleVersion /\ IdleCopy /\ IdleGo /\ IdleStats

-----------------------------------------------------------------------------
Init == IdleCred /\ InitUpload /\ IdleDownload /\ IdleFn

InitConn == IdleCred /\ IdleUpload /\ IdleDownload /\ IdleFn

SpecConn == InitConn /\ [][NextConn]_vars

InitDl == IdleCred /\ IdleUpload /\ InitDownload /\ IdleFn

SpecDownload == InitDl /\ [][NextDownload]_vars

InitSpider == InitCred /\ IdleUpload /\ IdleDownload /\ IdleFn

SpecInit == InitSpider /\ [][NextInit]_vars

Spec == Init /\ [][NextUpload]_vars

InitSuf == IdleCred /\ IdleUpload /\ IdleDownload /\ InitSuffix /\ IdleLabel /\ IdleSelect /\ IdleCmd /\ IdleVersion /\ IdleCopy /\ IdleGo /\ IdleStats

SpecSuffix == InitSuf /\ [][NextSuffix]_vars

InitAl == IdleCred /\ IdleUpload /\ IdleDownload /\ IdleSuffix /\ InitLabel /\ IdleSelect /\ IdleCmd /\ IdleVersion /\ IdleCopy /\ IdleGo /\ IdleStats

SpecLabel == InitAl /\ [][NextLabel]_vars

InitSs == IdleCred /\ IdleUpload /\ IdleDownload /\ IdleSuffix /\ IdleLabel /\ InitSelect /\ IdleCmd /\ IdleVersion /\ IdleCopy /\ IdleGo /\ IdleStats

SpecSelect == InitSs /\ [][NextSelect]_vars

InitRun == IdleCred /\ IdleUpload /\ IdleDownload /\ IdleSuffix /\ IdleLabel /\ IdleSelect /\ InitCmd /\ IdleVersion /\ IdleCopy /\ IdleGo /\ IdleStats

SpecCmd == InitRun /\ [][NextCmd]_vars

InitVer == IdleCred /\ IdleUpload /\ IdleDownload /\ IdleSuffix /\ IdleLabel /\ IdleSelect /\ IdleCmd /\ InitVersion /\ IdleCopy /\ IdleGo /\ IdleStats

SpecVersion == InitVer /\ [][NextVersion]_vars

InitAuto == IdleCred /\ IdleUpload /\ IdleDownload /\ IdleSuffix /\ IdleLabel /\ IdleSelect /\ IdleCmd /\ IdleVersion /\ InitCopy /\ IdleGo /\ IdleStats

SpecCopy == InitAuto /\ [][NextCopy]_vars

InitData == IdleCred /\ IdleUpload /\ IdleDownload /\ IdleFn

SpecData == InitData /\ [][NextData]_vars

InitUri == IdleCred /\ IdleUpload /\ IdleDownload /\ IdleSuffix /\ IdleLabel /\ IdleSelect /\ IdleCmd /\ IdleVersion /\ InitUriCopy /\ IdleGo /\ IdleStats

SpecUri == InitUri /\ [][NextCopy]_vars

InitAutoGo == IdleCred /\ IdleUpload /\ IdleDownload /\ IdleSuffix /\ IdleLabel /\ IdleSelect /\ IdleCmd /\ IdleVersion /\ InitGoCopy /\ InitGo /\ IdleStats

SpecGo == InitAutoGo /\ [][NextGo]_vars

InitAutoGoFew == IdleCred /\ IdleUpload /\ IdleDownload /\ IdleSuffix /\ IdleLabel /\ IdleSelect /\ IdleCmd /\ IdleVersion /\ InitGoCopy /\ InitGoFew /\ IdleStats

\* go() is not interrupted: a step that can be taken is taken
SpecGoLive == InitAutoGoFew /\ [][NextGo]_vars /\ WF_vars(NextGo)

InitPlot == IdleCred /\ IdleUpload /\ IdleDownload /\ IdleSuffix /\ IdleLabel /\ IdleSelect /\ IdleCmd /\ IdleVersion /\ IdleCopy /\ IdleGo /\ InitStats

SpecStats == InitPlot /\ [][NextStats]_vars

-----------------------------------------------------------------------------
(***************************************************************************)
(* Properties of the upload handler (checked under Spec)                   *)
(***************************************************************************)

\* the calls of the last operation that were made on a handler object
HandlerCalls == SelectSeq(calls, LAMBDA c : c.fn # "print_end")
\* the registrations among them
IsRegistration(c) == c.fn \in {"add_pdf", "add_file", "add_folder"}
Registrations == SelectSeq(calls, IsRegistration)
Constructions == SelectSeq(calls, LAMBDA c : c.fn = "SpiderProcessHandler")

\* C3: over any sequence of upload, upload_dict, end and has_spider_handler
\* calls the handler is constructed at most once: there is none after
\* construction of the spider, the first call creates it, and every later
\* call uses that same object and constructs nothing.
C3_HandlerConstructedOnce ==
    /\ Len(handlers) <= 1
    /\ (nops = 0 => spider_handler = NoHandler /\ handlers = <<>>)
    /\ (nops >= 1 => spider_handler = 1 /\ Len(handlers) = 1)
    /\ (nops = 1 => Len(Constructions) = 1 /\ calls[1].fn = "SpiderProcessHandler")
    /\ (nops >= 2 => Constructions = <<>>)
    /\ \A i \in DOMAIN HandlerCalls : HandlerCalls[i].handler = 1

\* C3 witness: a second operation has made calls on the handler the first
\* operation created
C3_Witness ==
    /\ nops >= 2
    /\ Len(handlers) = 1
    /\ Len(HandlerCalls) >= 1
    /\ last_op.op \in {"upload", "upload_dict", "end"}

\* C4: end() calls done(), then clean(jobdir), then prints the closing
\* time, in this order; the job directory is never cleaned before the queue
\* is marked done, and a missing handler is created before done().
C4_EndOrder ==
    /\ jobdir_clean => handler_done
    /\ last_op.op = "end" =>
        LET n == Len(calls) IN
        /\ raised = NoExc
        /\ n >= 3
        /\ calls[n - 2] = Call("done", spider_handler, None, None)
        /\ calls[n - 1] = Call("clean", spider_handler, jobdir, None)
        /\ calls[n] = Call("print_end", NoHandler, None, None)
        /\ spider_handler # NoHandler
        /\ IF nops = 1
           THEN n = 4 /\ calls[1] = Call("SpiderProcessHandler", spider_handler, None, None)
           ELSE n = 3

\* C4 witness: end() was the first operation, so it had to create the handler
C4_Witness ==
    /\ last_op.op = "end" /\ nops = 1
    /\ handler_done /\ jobdir_clean
    /\ Len(calls) = 4

\* C6: upload(fpath, resource) of an existing path registers exactly one
\* artifact: add_pdf(fpath) for a file with resource 'PDF', add_file(fpath,
\* resource) for a file with another resource, add_folder(fpath, resource)
\* for a directory whatever the resource.
C6_UploadRegistersOne ==
    (last_op.op = "upload" /\ fs[last_op.fpath] # "missing") =>
        LET f == last_op.fpath
            r == last_op.resource
        IN  /\ raised = NoExc
            /\ Len(Registrations) = 1
            /\ fs[f] = "file" /\ r = "PDF" =>
                   Registrations[1] = Call("add_pdf", spider_handler, f, None)
            /\ fs[f] = "file" /\ r # "PDF" =>
                   Registrations[1] = Call("add_file", spider_handler, f, r)
            /\ fs[f] = "dir" =>
                   Registrations[1] = Call("add_folder", spider_handler, f, r)

\* C6 witness: a file was uploaded to the PDF resource
C6_Witness ==
    /\ last_op.op = "upload"
    /\ fs[last_op.fpath] = "file" /\ last_op.resource = "PDF"
    /\ Len(Registrations) = 1 /\ Registrations[1].fn = "add_pdf"

\* C7: upload(fpath, resource) of a path that is neither a file nor a
\* directory raises ValueError and registers nothing with the handler.
C7_UploadMissingRaises ==
    (last_op.op = "upload" /\ fs[last_op.fpath] = "missing") =>
        /\ raised = Exc("ValueError", "upload")
        /\ Registrations = <<>>

\* C7 witness: upload of a missing path on a spider whose handler exists
C7_Witness ==
    /\ last_op.op = "upload" /\ fs[last_op.fpath] = "missing"
    /\ raised.type = "ValueError"
    /\ nops >= 2

\* the (path, resource) pairs of files_dict in iteration order, entry by
\* entry, up to the first entry whose value is neither a str nor a list
RECURSIVE PairsOf(_)
PairsOf(d) ==
    IF d = <<>> \/ Head(d).value.type = "other"
    THEN <<>>
    ELSE [i \in 1..Len(Head(d).value.paths) |->
              <<Head(d).value.paths[i], Head(d).resource>>] \o PairsOf(Tail(d))
HasOther(d) == \E i \in DOMAIN d : d[i].value.type = "other"
IsPrefix(s, t) == Len(s) <= Len(t) /\ \A i \in DOMAIN s : s[i] = t[i]

\* C8: upload_dict performs upload(path, resource) once for every path of
\* every entry, in order, and raises ValueError when it reaches a value that
\* is neither a string nor a list; an upload that raises ends the call.
C8_UploadDict ==
    last_op.op = "upload_dict" =>
        LET d == last_op.files_dict
            want == PairsOf(d)
            allExist == \A i \in DOMAIN want : fs[want[i][1]] # "missing"
        IN  /\ IsPrefix(uploads, want)
            /\ allExist => uploads = want
            /\ allExist /\ ~HasOther(d) => raised = NoExc
            /\ allExist /\ HasOther(d) => raised = Exc("ValueError", "upload_dict")
            /\ ~allExist =>
                  /\ raised = Exc("ValueError", "upload")
                  /\ fs[uploads[Len(uploads)][1]] = "missing"
            /\ Len(Registrations) =
                  Cardinality({i \in DOMAIN uploads : fs[uploads[i][1]] # "missing"})

\* C8 witness: a dictionary with a list of two existing paths followed by a
\* value of another type: both paths were uploaded, then ValueError
C8_Witness ==
    /\ last_op.op = "upload_dict"
    /\ Len(last_op.files_dict) = 2
    /\ last_op.files_dict[1].value.type = "list"
    /\ last_op.files_dict[2].value.type = "other"
    /\ Len(uploads) = 2 /\ Len(Registrations) = 2
    /\ raised = Exc("ValueError", "upload_dict")

-----------------------------------------------------------------------------
(***************************************************************************)
(* Properties of connections and downloads                                 *)
(***************************************************************************)

\* C1: every connection opened by Spider.download or Spider.download_inputs
\* is disconnected before the call returns control, on success and on
\* error alike (checked under SpecConn, and under SpecDownload).
C1_ConnectionsClosed ==
    dl_op.name \in {"download", "download_inputs"} => conns_open = 0

\* C2: download_xnat_file and download_xnat_resource never propagate an
\* exception: whether obtaining the connection or the download step fails,
\* the call returns None; only a successful download returns a result
\* (checked under SpecConn).
C2_HelpersNeverRaise ==
    dl_op.name \in {"download_xnat_file", "download_xnat_resource"} =>
        LET ok == /\ dl_op.iface_ok
                  /\ dl_op.step_ok
                  /\ (dl_op.name = "download_xnat_file" => dl_op.src.marker = "files")
        IN  /\ dl_op.raised = NoExc
            /\ dl_op.result # None <=> ok

\* the declared inputs are one and the same data dictionary, given once or
\* several times
SameInput ==
    /\ inputs.kind = "list" /\ inputs.items # <<>>
    /\ \A i \in DOMAIN inputs.items : inputs.items[i] = inputs.items[1]

\* C5: downloading the same declared input label again (the remote side
\* returning the same files) leaves self.data with one entry for the label
\* whose files hold no path twice and are, as a set, the files of a single
\* download (checked under SpecDownload).
C5_RepeatedDownloadMerges ==
    (dl_op.name = "download_inputs" /\ dl_op.raised = NoExc /\ SameInput) =>
        LET d == inputs.items[1]
            data_folder == IF d.dir # NoName THEN d.dir ELSE d.label
            single == {Path(data_folder, <<f>>) : f \in Remote(d.resource).files}
        IN  /\ Len(data) = 1
            /\ data[1].label = d.label
            /\ NoDup(data[1].files)
            /\ Range(data[1].files) = single

\* C5 witness: download_inputs has run twice with success over one labelled
\* input, and the entry holds the two files of the resource
C5_Witness ==
    /\ dl_op.name = "download_inputs" /\ dl_op.raised = NoExc
    /\ dl_runs = 2
    /\ SameInput
    /\ inputs.items[1].label # NoName
    /\ Len(data) = 1 /\ Len(data[1].files) = 2

-----------------------------------------------------------------------------
(***************************************************************************)
(* Properties of credential resolution (checked under SpecInit)            *)
(***************************************************************************)

\* the environment value seen by the last __init__ (None when unset)
EnvSeen(name) == init_call.environ[name]

C10_HostUserPrecedence ==
    init_state # "new" =>
        LET ah == init_call.xnat_host
            au == init_call.xnat_user
            eh == EnvSeen("XNAT_HOST")
            eu == EnvSeen("XNAT_USER")
        IN  /\ Truthy(ah) => host = ah
            /\ ~Truthy(ah) /\ Truthy(eh) => host = eh
            /\ ~Truthy(ah) /\ ~Truthy(eh) =>
                  host = None /\ init_state = ValueError
            /\ host # None =>
                  /\ Truthy(au) => user = au
                  /\ ~Truthy(au) /\ Truthy(eu) => user = eu
                  /\ ~Truthy(au) /\ ~Truthy(eu) =>
                        user = None /\ init_state = ValueError

\* C10 witness: the host argument wins over a set XNAT_HOST while the user
\* comes from XNAT_USER
C10_Witness ==
    /\ init_state = "done"
    /\ init_call.xnat_host = "argHost" /\ EnvSeen("XNAT_HOST") = "envHost"
    /\ host = "argHost"
    /\ ~Truthy(init_call.xnat_user) /\ user = "envUser"

-----------------------------------------------------------------------------
(***************************************************************************)
(* Properties of the suffix (checked under SpecSuffix)                     *)
(***************************************************************************)

\* a sanitised suffix: only ASCII alphanumerics and underscores, no two
\* consecutive underscores, a leading underscore and no trailing one
IsSanitized(s) ==
    /\ \A i \in 1..Len(s) : s[i] \in AsciiAlnum \cup {"_"}
    /\ \A i \in 1..(Len(s) - 1) : ~(s[i] = "_" /\ s[i + 1] = "_")
    /\ s # <<>>
    /\ s[1] = "_"
    /\ s[Len(s)] # "_"

\* C11: every construction with a non-empty suffix leaves a sanitised
\* self.suffix (only ASCII alphanumerics and underscores, no two consecutive
\* underscores, a leading underscore, no trailing one); an empty or absent
\* suffix leaves the empty string.  Refuted by a suffix made of
\* non-alphanumeric characters only: the constructor raises IndexError.
C11_SuffixSanitized ==
    suffix_state # "new" =>
        /\ suffix_state \in {"set", "again"}
        /\ IF suffix_arg.none \/ suffix_arg.chars = <<>>
           THEN suffix = <<>>
           ELSE IsSanitized(suffix)

\* C12: sanitising a suffix the sanitisation produced gives it back:
\* a spider constructed with another spider's self.suffix has the same
\* self.suffix
C12_SuffixIdempotent ==
    /\ suffix_state = "again" => suffix = suffix_arg.chars
    /\ suffix_state = "set" => sanitize_suffix([none |-> FALSE, chars |-> suffix]).exc = None

C12_Witness ==
    /\ suffix_state = "again"
    /\ Len(suffix) >= 3
    /\ suffix = suffix_arg.chars

-----------------------------------------------------------------------------
(***************************************************************************)
(* Properties of get_assessor_label (SpecLabel), select_str (SpecSelect)   *)
(* and of the addresses download_inputs selects (SpecDownload)             *)
(***************************************************************************)

\* C13: get_assessor_label returns a label holding '-x-' unchanged; for a
\* label without it the result is project-x-subject-x-session-x-label when
\* no scan is given and project-x-subject-x-session-x-scan-x-label otherwise
C13_AssessorLabel ==
    al_done =>
        IF Len(al_label) >= 2
        THEN al_result = al_label
        ELSE IF al_scan = NoName
        THEN al_result = <<"P", "S", "E", al_label[1]>>
        ELSE al_result = <<"P", "S", "E", al_scan[1], al_label[1]>>

C13_Witness ==
    /\ al_done
    /\ al_label = <<"fMRI">>
    /\ al_scan = <<"301">>
    /\ al_result = <<"P", "S", "E", "301", "fMRI">>

\* position of the entry of key k in the dictionary d
PosOf(d, k) == CHOOSE i \in DOMAIN d : d[i].key = k

\* C14: select_str renders one '/key/value' part for every entry whose
\* value is not empty and none for the others, in the order of the mapping
C14_SelectStr ==
    ss_done =>
        /\ \A i \in DOMAIN ss_result :
               \E j \in DOMAIN ss_dict :
                   ss_dict[j] = ss_result[i] /\ ss_dict[j].value # NoName
        /\ \A j \in DOMAIN ss_dict :
               ss_dict[j].value # NoName =>
                   Cardinality({i \in DOMAIN ss_result :
                                    ss_result[i] = ss_dict[j]}) = 1
        /\ \A i, k \in DOMAIN ss_result :
               i < k => PosOf(ss_dict, ss_result[i].key)
                            < PosOf(ss_dict, ss_result[k].key)
        /\ ss_dict = <<Pair("project", <<"P">>), Pair("subject", NoName),
                       Pair("experiment", <<"E">>)>>
               => ss_result = <<Pair("project", <<"P">>),
                                Pair("experiment", <<"E">>)>>

C14_Witness ==
    /\ ss_done
    /\ ss_dict = <<Pair("project", <<"P">>), Pair("subject", NoName),
                   Pair("experiment", <<"E">>)>>
    /\ Len(ss_result) = 2

\* the keys of an address
KeysOf(addr) == [i \in DOMAIN addr |-> addr[i].key]

\* C15: the address download_inputs selects for an input of type 'assessor'
\* is project/subject/experiment/assessor/out/resource, and the resource of
\* every other input is keyed 'resource'.  Refuted: line 310 compares the
\* dictionary with the string 'assessor', so the key is always 'resource'.
C15_AssessorOutResource ==
    \A i \in DOMAIN selected :
        LET keys == KeysOf(selected[i])
        IN  IF \E j \in DOMAIN keys : keys[j] = "assessor"
            THEN keys = <<"project", "subject", "experiment", "assessor",
                          "out/resource">>
            ELSE keys[Len(keys)] = "resource"

-----------------------------------------------------------------------------
(***************************************************************************)
(* Properties of run_cmd_args (checked under SpecCmd)                      *)
(***************************************************************************)

Perms(n) == {f \in [1..n -> 1..n] : \A i, j \in 1..n : i # j => f[i] # f[j]}
Permuted(args, f) == [i \in DOMAIN args |-> args[f[i]]]

\* the command run is the executable followed by the arguments in the
\* order f, an order of ascending integer position
RendersAscending(f) ==
    /\ cmd = <<cmd_args.exe>> \o render_args(Permuted(cmd_args.args, f))
    /\ \A i, j \in DOMAIN f :
           i < j => int(cmd_args.args[f[i]].position)
                        <= int(cmd_args.args[f[j]].position)

\* a non-MATLAB call on a well-formed self.cmd_args was made
CmdRan == cmd_done /\ ~cmd_call.matlab /\ cmd_args.kind = "ok"

\* C16 as stated: the command lists every declared argument once, in
\* ascending order of integer position, and is the same for every order of
\* declaration of the same arguments
C16_IndependentOfDeclaration ==
    CmdRan =>
        /\ cmd_raised = NoExc
        /\ \E f \in Perms(Len(cmd_args.args)) : RendersAscending(f)
        /\ \A f \in Perms(Len(cmd_args.args)) :
               run_cmd_args(CmdArgs("ok", Permuted(cmd_args.args, f)),
                            FALSE, None).cmd = cmd

\* C16, amended: the command lists every declared argument once, in
\* ascending order of integer position, arguments of equal position in
\* their order of declaration; it is the same for every order of
\* declaration when the positions are distinct
C16_SortedByPosition ==
    CmdRan =>
        /\ cmd_raised = NoExc
        /\ \E f \in Perms(Len(cmd_args.args)) :
               /\ RendersAscending(f)
               /\ \A i, j \in DOMAIN f :
                      (i < j /\ int(cmd_args.args[f[i]].position)
                                    = int(cmd_args.args[f[j]].position))
                          => f[i] < f[j]
        /\ (\A i, j \in DOMAIN cmd_args.args :
                i # j => int(cmd_args.args[i].position)
                             # int(cmd_args.args[j].position))
               => \A f \in Perms(Len(cmd_args.args)) :
                      run_cmd_args(CmdArgs("ok", Permuted(cmd_args.args, f)),
                                   FALSE, None).cmd = cmd

\* positions 10, 0, 2 declared in that order, run in the order 0, 2, 10
C16_Witness ==
    /\ CmdRan
    /\ Len(cmd_args.args) = 3
    /\ int(cmd_args.args[1].position) = 10
    /\ int(cmd_args.args[2].position) = 0
    /\ int(cmd_args.args[3].position) = 2
    /\ cmd = <<"exe", cmd_args.args[2].opt, " ", "v0", " ",
               cmd_args.args[3].opt, " ", "v2", " ",
               cmd_args.args[1].opt, " ", "v10", " ">>

-----------------------------------------------------------------------------
(***************************************************************************)
(* Properties of is_good_version (checked under SpecVersion)               *)
(***************************************************************************)

\* the string is three non-empty runs of digits separated by two dots
ThreeDigitParts(v) ==
    /\ Cardinality({i \in DOMAIN v : v[i] = "."}) = 2
    /\ \A i \in DOMAIN v : v[i] \in Digits \cup {"."}
    /\ v # <<>> /\ v[1] # "." /\ v[Len(v)] # "."
    /\ \A i \in 1..(Len(v) - 1) : ~(v[i] = "." /\ v[i + 1] = ".")

\* C17: is_good_version is true exactly for the strings made of three
\* non-empty parts of digits separated by dots: it accepts 1.1.1 and
\* rejects 1.1, 1.a.1 and a1.1.1
C17_GoodVersion ==
    version_done =>
        /\ version_result = ThreeDigitParts(version)
        /\ version = <<"1", ".", "1", ".", "1">> => version_result
        /\ version = <<"1", ".", "1">> => ~version_result
        /\ version = <<"1", ".", "a", ".", "1">> => ~version_result
        /\ version = <<"a", "1", ".", "1", ".", "1">> => ~version_result

C17_Witness ==
    /\ version_done
    /\ version = <<"1", "1", ".", "1", ".", "1">>
    /\ version_result

-----------------------------------------------------------------------------
(***************************************************************************)
(* Properties of download_inputs on malformed inputs (SpecDownload)        *)
(***************************************************************************)

\* self.inputs holds an entry that is not a dictionary
HasNonDict == \E i \in DOMAIN inputs.items : ~inputs.items[i].isdict

\* C18: download_inputs raises when self.inputs is None or empty, when it
\* is not a list, and when one of its entries is not a dictionary; in the
\* first two cases, and when the first entry is the faulty one, it is the
\* Exception of download_inputs itself
C18_MalformedInputsRaise ==
    dl_op.name = "download_inputs" =>
        /\ (inputs.kind # "list" \/ inputs.items = <<>>)
               => /\ dl_op.raised = Exc("Exception", "download_inputs")
                  /\ selected = <<>> /\ data = <<>> /\ conns_open = 0
        /\ (inputs.kind = "list" /\ HasNonDict) => dl_op.raised # NoExc
        /\ (inputs.kind = "list" /\ HasNonDict /\ dl_op.iface_ok
                /\ ~inputs.items[1].isdict)
               => dl_op.raised = Exc("Exception", "download_inputs")

\* a list whose second entry is not a dictionary: the first one was
\* downloaded, then the Exception was raised
C18_Witness ==
    /\ dl_op.name = "download_inputs"
    /\ inputs.kind = "list"
    /\ Len(inputs.items) = 2
    /\ inputs.items[1].isdict
    /\ ~inputs.items[2].isdict
    /\ data # <<>>
    /\ dl_op.raised = Exc("Exception", "download_inputs")

-----------------------------------------------------------------------------
(***************************************************************************)
(* Properties of AutoSpider.copy_inputs (checked under SpecCopy)           *)
(***************************************************************************)

\* the sources copy_inputs goes through: pi is the place of the parameter
\* in self.copy_list, k the place of the source in the parameter's value
CopyPositions ==
    {[pi |-> pi, k |-> k] :
         pi \in DOMAIN copy_list(params), k \in 1..(MaxSources + 1)}
Staged(pos) == argv[copy_list(params)[pos.pi]][pos.k]
StagingPositions ==
    {pos \in CopyPositions : pos.k <= Len(argv[copy_list(params)[pos.pi]])}
Before(a, b) == a.pi < b.pi \/ (a.pi = b.pi /\ a.k < b.k)
\* the directory INPUT/<param>_<k-1> of a source and the local path in it
DirOf(pos) == Dst(copy_list(params)[pos.pi], pos.k - 1, "")
PathOf(pos) == Dst(copy_list(params)[pos.pi], pos.k - 1, Staged(pos).base)
\* what the source leaves under INPUT: the file or directory copied, the
\* file downloaded, or the resource extracted into the directory
ContentOf(pos) ==
    IF Staged(pos).what = "resources"
    THEN Dst(copy_list(params)[pos.pi], pos.k - 1, "R")
    ELSE PathOf(pos)

\* copy_input returns no destination for the source
YieldsNone(src) ==
    \/ src.scheme = "local" /\ src.what = "missing"
    \/ src.scheme = "xnat" /\ src.what = "none"
    \/ src.scheme = "xnat" /\ copy_env.iface_ok /\ ~copy_env.step_ok
\* copy_input raises on the source
Raises(src) ==
    src.scheme = "xnat" /\ src.what # "none" /\ ~copy_env.iface_ok

\* the call of copy_inputs that made the directory INPUT was made
FirstCopy == copy_done /\ copy_raised # Exc("OSError", "mkdir")

\* C19: when every copy succeeds the value of each FILE or DIR parameter
\* is the list of the local paths of its sources, in the order of the
\* sources, the i-th of them under INPUT/<param>_<i>, and a VALUE parameter
\* keeps its value
C19_StagedPaths ==
    (FirstCopy /\ \A pos \in StagingPositions :
                      ~YieldsNone(Staged(pos)) /\ ~Raises(Staged(pos)))
        => /\ copy_result = "run_inputs"
           /\ run_inputs_bound
           /\ \A i \in DOMAIN params :
                  LET name == params[i].name
                  IN  IF params[i].kind \in {"FILE", "DIR"}
                      THEN /\ Len(src_inputs[name]) = Len(argv[name])
                           /\ \A k \in DOMAIN argv[name] :
                                  src_inputs[name][k]
                                      = Dst(name, k - 1, argv[name][k].base)
                      ELSE src_inputs[name] = argv[name]
           /\ \A pos \in StagingPositions :
                  DirOf(pos) \in staged_dirs /\ ContentOf(pos) \in staged_files

C19_Witness ==
    /\ FirstCopy
    /\ copy_result = "run_inputs"
    /\ Len(params) = 2
    /\ params[1].kind = "DIR" /\ params[2].kind = "FILE"
    /\ argv["in_dir"] = <<XnatResource, LocalDir>>
    /\ argv["in_file"] = <<LocalFile, XnatFile>>
    /\ src_inputs["in_dir"] = <<Dst("in_dir", 0, ""), Dst("in_dir", 1, "d")>>
    /\ src_inputs["in_file"] = <<Dst("in_file", 0, "a.nii"),
                                 Dst("in_file", 1, "x.nii")>>

\* C20: when copy_input returns no destination for a source, copy_inputs
\* returns None without raising; the sources before it stay staged, its
\* own directory stays, no later source is staged, and only the parameters
\* completed before it have their value replaced
C20_StopsAtFailure ==
    \A pos \in StagingPositions :
        (/\ FirstCopy
         /\ YieldsNone(Staged(pos))
         /\ \A q \in StagingPositions :
                Before(q, pos) => ~YieldsNone(Staged(q)) /\ ~Raises(Staged(q)))
            => /\ copy_result = None
               /\ copy_raised = NoExc
               /\ \A q \in StagingPositions :
                      /\ Before(q, pos) =>
                             DirOf(q) \in staged_dirs /\ ContentOf(q) \in staged_files
                      /\ Before(pos, q) => DirOf(q) \notin staged_dirs
               /\ DirOf(pos) \in staged_dirs
               /\ Cardinality(staged_files)
                      = Cardinality({q \in StagingPositions : Before(q, pos)})
               /\ \A i \in DOMAIN copy_list(params) :
                      LET name == copy_list(params)[i]
                      IN  IF i < pos.pi
                          THEN \A k \in DOMAIN src_inputs[name] :
                                   src_inputs[name][k].scheme = "staged"
                          ELSE src_inputs[name] = argv[name]

\* the second source of the second parameter cannot be staged
C20_Witness ==
    /\ FirstCopy
    /\ copy_result = None
    /\ copy_raised = NoExc
    /\ Len(params) = 2
    /\ params[1].kind = "FILE" /\ params[2].kind = "DIR"
    /\ argv["in_file"] = <<LocalFile>>
    /\ argv["in_dir"] = <<LocalDir, LocalMissing>>
    /\ staged_files = {Dst("in_file", 0, "a.nii"), Dst("in_dir", 0, "d")}
    /\ Dst("in_dir", 1, "") \in staged_dirs

-----------------------------------------------------------------------------
(***************************************************************************)
(* Properties of the download helpers and of select_obj (SpecConn)         *)
(***************************************************************************)

\* C23: when download_xnat_file or download_xnat_resource obtained its
\* connection, the connection is disconnected once before the helper
\* returns, whether the download step succeeded or failed: the helper
\* returns without exception and leaves as many connections open as
\* there were before the call
C23_HelperDisconnects ==
    [][(dl_op'.name \in {"download_xnat_file", "download_xnat_resource"}
            /\ dl_op'.iface_ok)
           => conns_open' = conns_open /\ dl_op'.raised = NoExc]_vars

\* the download step of download_xnat_file failed and nothing stays open
C23_Witness ==
    /\ dl_op.name = "download_xnat_file"
    /\ dl_op.iface_ok /\ ~dl_op.step_ok
    /\ dl_op.src.marker = "files"
    /\ dl_op.result = None
    /\ selected # <<>>
    /\ conns_open = 0

\* the addresses select_obj tries for a label
ScanAddress(label) ==
    <<Pair("project", <<"P">>), Pair("subject", <<"S">>),
      Pair("experiment", <<"E">>), Pair("scan", label),
      Pair("resource", <<"FILES">>)>>
AssessorAddress(label) ==
    <<Pair("project", <<"P">>), Pair("subject", <<"S">>),
      Pair("experiment", <<"E">>), Pair("assessor", label),
      Pair("out/resource", <<"FILES">>)>>

\* C24: select_obj selects the scan address first and returns the scan
\* when it resolves, without trying the assessor; otherwise it selects the
\* assessor address next and returns the assessor when that resolves; it
\* raises ValueError when neither does
C24_ScanBeforeAssessor ==
    dl_op.name = "select_obj" =>
        IF "scan" \in dl_op.found
        THEN /\ selected = <<ScanAddress(dl_op.label)>>
             /\ dl_op.result = "scan" /\ dl_op.raised = NoExc
        ELSE /\ selected = <<ScanAddress(dl_op.label),
                             AssessorAddress(dl_op.label)>>
             /\ IF "assessor" \in dl_op.found
                THEN dl_op.result = "assessor" /\ dl_op.raised = NoExc
                ELSE dl_op.raised = Exc("ValueError", "select_obj")

\* the label resolves both as a scan and as an assessor
C24_Witness ==
    /\ dl_op.name = "select_obj"
    /\ dl_op.found = {"scan", "assessor"}
    /\ dl_op.result = "scan"
    /\ Len(selected) = 1

-----------------------------------------------------------------------------
(***************************************************************************)
(* Properties of the files download_inputs leaves (SpecDownload, SpecData)  *)
(***************************************************************************)

FolderOf(d) == IF d.dir # NoName THEN d.dir ELSE d.label

\* the entry declares a resource that download_inputs can fetch
Fetchable(d) ==
    /\ d.isdict
    /\ FolderOf(d) # NoName
    /\ ~get_xnat_dict(d).isNone
    /\ Remote(d.resource).exists

\* C26: after download_inputs has fetched its inputs, every file and every
\* directory of each extracted resource is directly under the directory of
\* the input, the extracted resource folder is gone, and the files recorded
\* for the label are the files under the directory of the input.  Refuted
\* by a resource holding a directory: copytree into the existing directory
\* of the input raises OSError and the extracted folder stays.
C26_Flattened ==
    (/\ dl_op.name = "download_inputs" /\ dl_op.iface_ok
     /\ inputs.kind = "list" /\ inputs.items # <<>>
     /\ \A i \in DOMAIN inputs.items : Fetchable(inputs.items[i]))
        => /\ dl_op.raised = NoExc
           /\ \A i \in DOMAIN inputs.items :
                  LET d == inputs.items[i]
                      content == Remote(d.resource)
                  IN  /\ \A f \in content.files :
                             Path(FolderOf(d), <<f>>) \in dl_files
                      /\ \A sd \in content.dirs :
                             /\ Path(FolderOf(d), <<sd>>) \in dl_dirs
                             /\ Path(FolderOf(d), <<sd, "g">>) \in dl_files
                      /\ Path(FolderOf(d), <<d.resource[1]>>) \notin dl_dirs
                      /\ \A p \in dl_files :
                             ~Under(p, FolderOf(d), <<d.resource[1]>>)
                      /\ \E k \in DOMAIN data :
                             /\ data[k].label = d.label
                             /\ {p \in dl_files : p.folder = FolderOf(d)}
                                    \subseteq Range(data[k].files)

\* self.data keeps d: every entry of d is in e at the same place, with the
\* same label and at least the same files
Extends(e, d) ==
    /\ Len(e) >= Len(d)
    /\ \A i \in DOMAIN d :
           /\ e[i].label = d[i].label
           /\ Range(d[i].files) \subseteq Range(e[i].files)

\* C30: self.data holds at most one entry per label, and no call of
\* download_inputs removes an entry or takes a path out of the files of a
\* label
C30_DataGrows ==
    /\ [](\A i, j \in DOMAIN data : data[i].label = data[j].label => i = j)
    /\ [][Extends(data', data)]_vars

\* two calls for inputs of one label, declared one after the other with
\* different directories, made one entry, which holds the files of both
C30_Witness ==
    /\ dl_op.name = "download_inputs"
    /\ dl_runs = 2
    /\ Len(inputs.items) = 1
    /\ inputs.items[1].resource = <<"FILES2">>
    /\ Len(data) = 1
    /\ data[1].label = <<"L">>
    /\ Range(data[1].files)
           = {Path(<<"D">>, <<"f1">>), Path(<<"D">>, <<"f2">>),
              Path(<<"L">>, <<"f2">>), Path(<<"L">>, <<"f3">>)}

-----------------------------------------------------------------------------
(***************************************************************************)
(* Properties of the matlab branch of run_cmd_args (checked under SpecCmd) *)
(***************************************************************************)

\* C28: a call of run_cmd_args with matlab set, a template and a cmd_args
\* holding 'exe' and a non-empty 'args' list does not raise.  Refuted: line
\* 633 compares mat_args[arg['opt']] with the value instead of assigning it,
\* and the read of the empty dictionary raises KeyError.
C28_MatlabRuns ==
    (/\ cmd_done
     /\ cmd_call.matlab
     /\ Truthy(cmd_call.matlab_template)
     /\ cmd_args.kind = "ok"
     /\ cmd_args.args # <<>>)
        => cmd_raised = NoExc

-----------------------------------------------------------------------------
(***************************************************************************)
(* Properties of the staging of xnat:/ URIs (checked under SpecUri)        *)
(***************************************************************************)

\* the sources of the parameter and the ones copy_input was called for
UriParam == params[1].name
UriList == argv[UriParam]
Handled(i) == Dst(UriParam, i - 1, "") \in staged_dirs
\* the path the server is asked for: the URIs have the placeholder as
\* their second part or not at all
ServerPath(src) ==
    IF src.uri[2] = "{session}"
    THEN <<"/projects/", "P", "/subjects/", "S", "/experiments/", "E">>
             \o SubSeq(src.uri, 3, Len(src.uri))
    ELSE SubSeq(src.uri, 2, Len(src.uri))
\* the path up to its '/files/' marker
ResourceOf(path) ==
    SubSeq(path, 1, (CHOOSE k \in DOMAIN path : path[k] = "/files/") - 1)
\* the files staged for the i-th source
StagedFor(i) == {f \in staged_files : f.param = UriParam /\ f.index = i - 1}
Fetches ==
    {i \in DOMAIN UriList : Handled(i) /\ UriList[i].scheme = "xnat"
                               /\ UriList[i].what \in {"files", "resources"}}

\* C25: when the server answers, an xnat:/ source with one '/files/' marker
\* is fetched as the file named after the marker from the resource address
\* with '{session}' replaced, a source with '/resources/' and no '/files/'
\* is extracted whole into its staging directory, and a source with neither
\* marker yields None with nothing asked of the server; URIs follow the
\* scheme, which has '/files/' at most once, and the call is the one that
\* made the INPUT directory
C25_XnatStaging ==
    (/\ copy_done /\ copy_env.iface_ok /\ copy_env.step_ok
     /\ copy_raised # Exc("OSError", "mkdir"))
        => /\ \A i \in DOMAIN UriList :
                 (Handled(i) /\ UriList[i].scheme = "xnat") =>
                     LET src == UriList[i]
                     IN  /\ src.what = "files" =>
                              /\ StagedFor(i) = {Dst(UriParam, i - 1, src.base)}
                              /\ ResourceOf(ServerPath(src)) \in Range(selected)
                         /\ src.what = "resources" =>
                              /\ StagedFor(i) = {Dst(UriParam, i - 1, "R")}
                              /\ ServerPath(src) \in Range(selected)
                              /\ (copy_result # None =>
                                     src_inputs[UriParam][i]
                                         = Dst(UriParam, i - 1, ""))
                         /\ src.what = "none" =>
                              /\ StagedFor(i) = {}
                              /\ copy_result = None
                              /\ copy_raised = NoExc
                              /\ ~(ServerPath(src) \in Range(selected))
           /\ Len(selected) = Cardinality(Fetches)
           /\ conns_open = 0

\* a file URI with the placeholder was staged, then a URI with neither marker
\* was refused
C25_Witness ==
    /\ copy_done /\ copy_env.iface_ok /\ copy_env.step_ok
    /\ UriList = <<XnatFile, XnatOther>>
    /\ staged_files = {Dst(UriParam, 0, "x.nii")}
    /\ selected = <<<<"/projects/", "P", "/subjects/", "S", "/experiments/",
                      "E", "/resources/", "R">>>>
    /\ copy_result = None

-----------------------------------------------------------------------------
(***************************************************************************)
(* Properties of plot_stats (checked under SpecStats)                      *)
(***************************************************************************)

\* C27: when tables_number divides the number of entries, plot_stats draws
\* tables_number tables of N / tables_number rows each and every entry is a
\* row of exactly one table.  Refuted: the rows of a table are cut at
\* multiples of nb_stats/3, whatever tables_number is.
C27_EvenSplit ==
    (stats_done /\ Len(stats_dict) % tables_number = 0)
        => /\ Len(tables) = tables_number
           /\ \A k \in DOMAIN tables :
                  Len(tables[k]) = Len(stats_dict) \div tables_number
           /\ \A e \in Range(stats_dict) :
                  Cardinality({<<k, i>> \in (DOMAIN tables) \X (1..MaxStats + 1) :
                                  i \in DOMAIN tables[k] /\ tables[k][i] = e}) = 1

\* the case the documentation gives: 9 entries in 3 tables of 3 rows
C27_DocumentedCase ==
    (stats_done /\ Len(stats_dict) = 9 /\ tables_number = 3)
        => tables = <<<<1, 2, 3>>, <<4, 5, 6>>, <<7, 8, 9>>>>

-----------------------------------------------------------------------------
(***************************************************************************)
(* Properties of AutoSpider.go and finish (checked under SpecGo and        *)
(* SpecGoLive)                                                             *)
(***************************************************************************)

\* the registrations among the calls of the last operation, and the
\* declared outputs that have a kind finish knows
KnownOutputs == SelectSeq(outputs, LAMBDA o : o.kind \in {"FILE", "DIR"})
Finished == last_op.op = "finish"
\* the places of the calls named fn
Places(fn) == {i \in DOMAIN calls : calls[i].fn = fn}

\* C21: after finish(), the declared outputs are registered in order, a
\* FILE of resource PDF with add_pdf, another FILE with add_file under its
\* resource, a DIR with add_folder under its resource, each at its path
\* under jobdir; when no output is declared every entry under jobdir is
\* registered once with add_folder under its own name; and end() ran once,
\* after every registration
C21_FinishRegisters ==
    Finished =>
        /\ outputs # <<>> =>
              /\ Len(Registrations) = Len(KnownOutputs)
              /\ \A i \in DOMAIN KnownOutputs :
                    LET o == KnownOutputs[i]
                        c == Registrations[i]
                    IN  /\ c.path = join(jobdir, o.path)
                        /\ c.handler = spider_handler
                        /\ (o.kind = "FILE" /\ o.resource = "PDF")
                               => c.fn = "add_pdf"
                        /\ (o.kind = "FILE" /\ o.resource # "PDF")
                               => c.fn = "add_file" /\ c.resource = o.resource
                        /\ o.kind = "DIR"
                               => c.fn = "add_folder" /\ c.resource = o.resource
        /\ outputs = <<>> =>
              /\ Len(Registrations) = Cardinality(Listing)
              /\ \A e \in Listing :
                    \E i \in DOMAIN Registrations :
                        Registrations[i]
                            = Call("add_folder", spider_handler, join(jobdir, e), e)
        /\ Cardinality(Places("done")) = 1
        /\ Cardinality(Places("clean")) = 1
        /\ \A i \in DOMAIN calls, d \in Places("done") :
               IsRegistration(calls[i]) => i < d
        /\ handler_done /\ jobdir_clean

\* a PDF and a directory were declared and registered, then the queue was
\* marked done
C21_Witness ==
    /\ Finished
    /\ outputs = <<Output("report.pdf", "FILE", "PDF"),
                   Output("outdir", "DIR", "DATA")>>
    /\ Registrations = <<Call("add_pdf", spider_handler, "jobdir/report.pdf", None),
                         Call("add_folder", spider_handler, "jobdir/outdir", "DATA")>>
    /\ handler_done

\* the methods go() can have invoked so far
GoOrders ==
    {<<>>, <<"pre_run">>, <<"pre_run", "run">>, <<"pre_run", "run", "finish">>}

\* C22: go() invokes pre_run, then run, then finish, one at a time, each at
\* most once and in that order, finish only when skip_finish is false; with
\* skip_finish set nothing is registered, the queue is never marked done and
\* the job directory is never cleaned
C22_GoOrder ==
    /\ [](go_trace \in GoOrders)
    /\ [][go_trace' = go_trace
            \/ (\E m \in {"pre_run", "run", "finish"} :
                   go_trace' = Append(go_trace, m))]_vars
    /\ []("finish" \in Range(go_trace) => ~skip_finish)
    /\ [](skip_finish => (/\ calls = <<>>
                          /\ spider_handler = NoHandler
                          /\ ~handler_done
                          /\ ~jobdir_clean))

\* go() returned after run with skip_finish set
C22_Witness ==
    /\ go_pc = "returned"
    /\ skip_finish
    /\ go_trace = <<"pre_run", "run">>
    /\ script.written
    /\ calls = <<>>

\* copy_inputs returned None in pre_run
StagingFailed == copy_done /\ copy_result = None /\ copy_raised = NoExc

\* C29: when copy_inputs returned None in pre_run, go() still invokes run,
\* which renders the template with the dictionary copy_inputs left, and,
\* when run returned and skip_finish is not set, finish registers the
\* outputs (the declared ones of a known kind, or every entry under jobdir)
\* and marks the queue done
C29_StagingIgnored ==
    /\ StagingFailed ~> ("run" \in Range(go_trace))
    /\ (StagingFailed /\ go_pc = "run")
           ~> (/\ script = Script(src_inputs)
               /\ (skip_finish
                      \/ (/\ Finished /\ handler_done /\ jobdir_clean
                          /\ Len(Registrations)
                                 = IF outputs # <<>> THEN Len(KnownOutputs)
                                   ELSE Cardinality(Listing))))

\* the second source of the parameter could not be staged; run and finish
\* were invoked all the same
C29_Witness ==
    /\ StagingFailed
    /\ argv["in_file"] = <<LocalFile, LocalMissing>>
    /\ staged_files = {Dst("in_file", 0, "a.nii")}
    /\ go_trace = <<"pre_run", "run", "finish">>
    /\ script = Script(argv)
    /\ Finished /\ handler_done

====
